---- MODULE Spec2Model ----
(***************************************************************************)
(* Model of the x402 paywall of the DeFi yield API (src/src/server.ts):    *)
(* the payment middleware requirePayment, the header parser                *)
(* parseX402Header, the on-chain check verifyPayment and the protected     *)
(* route handlers.                                                         *)
(*                                                                         *)
(* One request is in flight at a time (the server keeps no state across    *)
(* requests, so interleaving requests adds nothing).  The ledger is the    *)
(* only state that outlives a request.                                     *)
(*                                                                         *)
(* The data engine behind the routes is modelled call by call: the yield   *)
(* aggregation getBestYields with its three provider fetches               *)
(* (src/src/yield.ts), the price service calculateUsdValue and getPrices   *)
(* (src/unnamed/part_000), and the portfolio snapshot                      *)
(* getPortfolioAnalytics with the risk score calculateRiskScore            *)
(* (src/src/portfolio.ts).                                                 *)
(***************************************************************************)
EXTENDS Integers, Sequences, FiniteSets, TLC

VARIABLES
    pc,          \* position of the request: idle, verifying, computing, done
    req,         \* the request being served
    res,         \* the response sent for it (NoResponse until one is sent)
    nextCalled,  \* the middleware called next(), so the route handler ran
    parsedPayment,
                 \* what parseX402Header returned for this request
                 \* (NullPayment: null, or the header was not parsed)
    call,        \* arguments of the verifyPayment call of this request
    ledgerReads, \* number of connection.getTransaction calls of this request
    isValid,     \* what verifyPayment returned: "none", "true", "false"
    tx,          \* what connection.getTransaction answered (TxNone before)
    ledger,      \* the chain: signature -> transaction lookup result
    authorizedRefs,
                 \* history: the signatures of the requests authorized since
                 \* the chain last changed its answer for them; the server
                 \* itself records nothing of the kind
    yieldCall,   \* arguments of the getBestYields call in progress
    fetches,     \* the three provider fetches of that call
    bestYields,  \* what getBestYields returned (NoBestYields before)
    priceCall,   \* arguments of the calculateUsdValue call in progress
    updates,     \* what the price feed answered to that call
    usdValue,    \* what calculateUsdValue returned (NotANumber before)
    pricesCall,  \* the symbols of the getPrices call in progress
    prices,      \* the map getPrices returned: symbol -> price (<<>> before)
    portfolioCall,
                 \* arguments of the getPortfolioAnalytics call in progress
                 \* and the balance it has read
    analytics,   \* what getPortfolioAnalytics returned (NoAnalytics before)
    riskScore    \* what calculateRiskScore returned (NoRiskScore before)

\* The state of the payment gateway and the state of the data engine.
gatewayVars ==
    <<req, res, nextCalled, parsedPayment, call, ledgerReads, isValid, tx,
      ledger, authorizedRefs>>
yieldVars == <<yieldCall, fetches, bestYields>>
priceVars == <<priceCall, updates, usdValue, pricesCall, prices>>
portfolioVars == <<portfolioCall, analytics, riskScore>>
engineVars == <<yieldVars, priceVars, portfolioVars>>

vars == <<pc, gatewayVars, engineVars>>

----------------------------------------------------------------------------
(* JavaScript values.  Every value is a record of one shape so that values *)
(* of different JavaScript types can be compared with each other.          *)

Undef   == [t |-> "undefined", n |-> 0, s |-> ""]
Null    == [t |-> "null",      n |-> 0, s |-> ""]
NaN     == [t |-> "NaN",       n |-> 0, s |-> ""]
Num(k)  == [t |-> "number",    n |-> k, s |-> ""]
Str(x)  == [t |-> "string",    n |-> 0, s |-> x]
Bool(b) == [t |-> "boolean",   n |-> IF b THEN 1 ELSE 0, s |-> ""]

\* ToBoolean: undefined, null, NaN, 0, "" and false are falsy.
Truthy(v) ==
    CASE v.t = "undefined" -> FALSE
      [] v.t = "null"      -> FALSE
      [] v.t = "NaN"       -> FALSE
      [] v.t = "number"    -> v.n # 0
      [] v.t = "string"    -> v.s # ""
      [] v.t = "boolean"   -> v.n = 1

\* a || b
Or(a, b) == IF Truthy(a) THEN a ELSE b

\* The numbers whose decimal literals occur as strings in the model.
DecimalNumbers ==
    {0, 1000, 49000, 49001, 49999, 50000, 50999, 51000, 100000}

\* StringToNumber: the empty string is 0, a decimal literal is its value,
\* anything else is NaN.
StringToNumber(x) ==
    IF x = "" THEN Num(0)
    ELSE IF \E k \in DecimalNumbers : ToString(k) = x
         THEN Num(CHOOSE k \in DecimalNumbers : ToString(k) = x)
         ELSE NaN

\* ToNumber
ToNumber(v) ==
    CASE v.t = "undefined" -> NaN
      [] v.t = "null"      -> Num(0)
      [] v.t = "NaN"       -> NaN
      [] v.t = "number"    -> v
      [] v.t = "string"    -> StringToNumber(v.s)
      [] v.t = "boolean"   -> Num(v.n)

\* a < b where b is a number: both operands go through ToNumber and the
\* comparison is false as soon as one of them is NaN.
LessThan(a, b) ==
    LET x == ToNumber(a)
        y == ToNumber(b)
    IN  x.t = "number" /\ y.t = "number" /\ x.n < y.n

\* a === b
StrictEquals(a, b) == a.t # "NaN" /\ a = b

----------------------------------------------------------------------------
(* Configuration (server.ts 19-31).                                        *)

RECIPIENT_WALLET == "RecipientWallet"
USDC_MINT == "4zMMC9srt5Ri5X14GAgXhaHii3GnPAEERYPJgZJDncDU"

PRICES ==
    [BEST_YIELD |-> 50000, PORTFOLIO |-> 100000, RISK |-> 75000,
     DEFI_INTEL |-> 100000]

Routes ==
    {"/best-yield", "/portfolio-analytics/:wallet", "/risk-score/:wallet",
     "/api/defi-intel"}

\* The amount each protected route is registered with.
RequiredAmount(route) ==
    CASE route = "/best-yield"                  -> PRICES.BEST_YIELD
      [] route = "/portfolio-analytics/:wallet" -> PRICES.PORTFOLIO
      [] route = "/risk-score/:wallet"          -> PRICES.RISK
      [] route = "/api/defi-intel"              -> PRICES.DEFI_INTEL

----------------------------------------------------------------------------
(* The x-402-payment header and parseX402Header (server.ts 37-66).         *)

\* The keys parseX402Header reads from the decoded header.
AliasKeys ==
    {"amount", "value", "token", "mint", "sender", "from", "payer",
     "recipient", "to", "payee", "signature", "txSignature", "tx",
     "timestamp"}

\* A decoded value none of whose properties is set.
NoProps == [k \in AliasKeys |-> Undef]

\* A header value is described by what JSON.parse makes of it:
\*   absent     the request has no x-402-payment header (undefined)
\*   empty      the header is the empty string
\*   text       the value is not JSON
\*   null       the JSON literal null
\*   primitive  a JSON number, string or boolean
\*   array      a JSON array
\*   object     a JSON object, whose members are props (Undef: no such key)
Header(kind, props) == [kind |-> kind, props |-> props]

\* !paymentHeader
HeaderMissing(h) == h.kind \in {"absent", "empty"}

\* JSON.parse(headerValue): throws on text that is not JSON; otherwise the
\* decoded value.  Reading a property of a number, string, boolean or array
\* that it does not have yields undefined.
JSONParse(h) ==
    CASE h.kind = "text"   -> [threw |-> TRUE,  isNull |-> FALSE, props |-> NoProps]
      [] h.kind = "null"   -> [threw |-> FALSE, isNull |-> TRUE,  props |-> NoProps]
      [] h.kind = "object" -> [threw |-> FALSE, isNull |-> FALSE, props |-> h.props]
      [] OTHER             -> [threw |-> FALSE, isNull |-> FALSE, props |-> NoProps]

\* The value parseX402Header returns when it catches an exception.
NullPayment ==
    [isNull |-> TRUE, amount |-> Undef, token |-> Undef, sender |-> Undef,
     recipient |-> Undef, signature |-> Undef, timestamp |-> Undef]

\* parseX402Header(headerValue); now is the value of Date.now().  Reading
\* paymentData.amount of null throws a TypeError, which the catch turns into
\* null like a JSON syntax error.
parseX402Header(h, now) ==
    LET paymentData == JSONParse(h)
        p == paymentData.props
    IN  IF paymentData.threw \/ paymentData.isNull
        THEN NullPayment
        ELSE [isNull    |-> FALSE,
              amount    |-> Or(p["amount"], p["value"]),
              token     |-> Or(p["token"], p["mint"]),
              sender    |-> Or(Or(p["sender"], p["from"]), p["payer"]),
              recipient |-> Or(Or(p["recipient"], p["to"]), p["payee"]),
              signature |-> Or(Or(p["signature"], p["txSignature"]), p["tx"]),
              timestamp |-> Or(p["timestamp"], Num(now))]

----------------------------------------------------------------------------
(* The ledger and verifyPayment (server.ts 71-133).                        *)

\* The strings new PublicKey accepts; it throws on every other string.
ValidAddresses == {RECIPIENT_WALLET, USDC_MINT, "PayerWallet", "HolderWallet"}

IsPublicKey(x) == x \in ValidAddresses

\* getAssociatedTokenAddress(mint, owner): the token account derived from
\* the pair, a different account for every pair.
getAssociatedTokenAddress(mint, owner) == [owner |-> owner, mint |-> mint]

\* What connection.getTransaction answers for a signature:
\*   rpcError  the call throws (node unreachable, timeout, bad parameter)
\*   null      no confirmed transaction has the signature
\*   noMeta    a transaction without metadata
\*   found     a transaction with metadata: err is its execution error,
\*             the balance lists are tx.meta.*TokenBalances (a missing list
\*             is the empty one, as "|| []" makes it), accountKeys the
\*             message's account keys and keysResolved whether
\*             getAccountKeys() returns them instead of throwing
Tx(status, err, post, pre, keys, resolved) ==
    [status |-> status, err |-> err, postTokenBalances |-> post,
     preTokenBalances |-> pre, accountKeys |-> keys, keysResolved |-> resolved]

\* A token balance record; amount is uiTokenAmount.amount, a decimal string.
Balance(accountIndex, mint, amount) ==
    [accountIndex |-> accountIndex, mint |-> mint, amount |-> amount]

\* preBalances.find(pb => pb.accountIndex === accountIndex), then
\* Number(preBalance?.uiTokenAmount.amount || 0)
PreAmount(pre, accountIndex) ==
    LET hits == {i \in 1..Len(pre) : pre[i].accountIndex = accountIndex}
    IN  IF hits = {} THEN 0
        ELSE LET first == CHOOSE i \in hits : \A j \in hits : i <= j
             IN  ToNumber(Or(Str(pre[first].amount), Num(0))).n

Abs(x) == IF x < 0 THEN -x ELSE x

\* The tolerance of the amount comparison.
TOLERANCE == 1000

\* The loop over postBalances from index i on: "true" when a record of the
\* recipient's token account matches the amount or the loop runs out,
\* "throw" when getAccountKeys() throws.
RECURSIVE ScanPostBalances(_, _, _, _)
ScanPostBalances(t, i, recipientAta, expectedAmount) ==
    IF i > Len(t.postTokenBalances) THEN "true"
    ELSE LET postBalance == t.postTokenBalances[i]
             rest == ScanPostBalances(t, i + 1, recipientAta, expectedAmount)
         IN  IF postBalance.mint # USDC_MINT THEN rest
             ELSE IF ~t.keysResolved THEN "throw"
             ELSE IF postBalance.accountIndex + 1 > Len(t.accountKeys) THEN rest
             ELSE IF t.accountKeys[postBalance.accountIndex + 1] # recipientAta
                  THEN rest
             ELSE LET amountReceived ==
                          ToNumber(Str(postBalance.amount)).n
                          - PreAmount(t.preTokenBalances, postBalance.accountIndex)
                  IN  IF Abs(amountReceived - expectedAmount) < TOLERANCE
                      THEN "true"
                      ELSE rest

\* Faulty variant of verifyPayment: tx.meta.err is not looked at.
verifyPaymentIgnoresErr(t, expectedAmount, expectedRecipient) ==
    IF t.status = "rpcError" THEN FALSE
    ELSE IF t.status \in {"null", "noMeta"} THEN FALSE
    ELSE IF ~IsPublicKey(expectedRecipient) \/ ~IsPublicKey(USDC_MINT) THEN FALSE
    ELSE ScanPostBalances(
             t, 1, getAssociatedTokenAddress(USDC_MINT, expectedRecipient),
             expectedAmount) = "true"

\* Faulty variant of the loop: running out of records is "false".
RECURSIVE ScanPostBalancesOrDeny(_, _, _, _)
ScanPostBalancesOrDeny(t, i, recipientAta, expectedAmount) ==
    IF i > Len(t.postTokenBalances) THEN "false"
    ELSE LET postBalance == t.postTokenBalances[i]
             rest == ScanPostBalancesOrDeny(t, i + 1, recipientAta,
                                            expectedAmount)
         IN  IF postBalance.mint # USDC_MINT THEN rest
             ELSE IF ~t.keysResolved THEN "throw"
             ELSE IF postBalance.accountIndex + 1 > Len(t.accountKeys) THEN rest
             ELSE IF t.accountKeys[postBalance.accountIndex + 1] # recipientAta
                  THEN rest
             ELSE LET amountReceived ==
                          ToNumber(Str(postBalance.amount)).n
                          - PreAmount(t.preTokenBalances, postBalance.accountIndex)
                  IN  IF Abs(amountReceived - expectedAmount) < TOLERANCE
                      THEN "true"
                      ELSE rest

\* Faulty variant of verifyPayment: a transaction without a matching record
\* is denied.
verifyPaymentDenyByDefault(t, expectedAmount, expectedRecipient) ==
    IF t.status = "rpcError" THEN FALSE
    ELSE IF t.status \in {"null", "noMeta"} THEN FALSE
    ELSE IF t.err THEN FALSE
    ELSE IF ~IsPublicKey(expectedRecipient) \/ ~IsPublicKey(USDC_MINT) THEN FALSE
    ELSE ScanPostBalancesOrDeny(
             t, 1, getAssociatedTokenAddress(USDC_MINT, expectedRecipient),
             expectedAmount) = "true"

\* verifyPayment(signature, expectedAmount, expectedRecipient), given the
\* answer t of connection.getTransaction(signature).
verifyPayment(t, expectedAmount, expectedRecipient) ==
    IF t.status = "rpcError" THEN FALSE
    ELSE IF t.status \in {"null", "noMeta"} THEN FALSE
    ELSE IF t.err THEN FALSE
    ELSE IF ~IsPublicKey(expectedRecipient) \/ ~IsPublicKey(USDC_MINT) THEN FALSE
    ELSE ScanPostBalances(
             t, 1, getAssociatedTokenAddress(USDC_MINT, expectedRecipient),
             expectedAmount) = "true"

----------------------------------------------------------------------------
(* Requests and responses.                                                 *)

\* The payment object of a 402 body.
PaymentRequirement(requiredAmount) ==
    [amount |-> requiredAmount, token |-> USDC_MINT,
     recipient |-> RECIPIENT_WALLET, network |-> "solana-devnet",
     protocol |-> "x402-solana"]

NoRequirement ==
    [amount |-> 0, token |-> "", recipient |-> "", network |-> "",
     protocol |-> ""]

\* res.status(status).json(body): keys are the members of the body, error
\* its error member, payment its payment member and paid its paid member
\* (NoRequirement and 0 when the body has none); by is the function that
\* sent it.
Response(status, error, keys, payment, paid, by) ==
    [status |-> status, error |-> error, keys |-> keys, payment |-> payment,
     paid |-> paid, by |-> by]

NoResponse == Response(0, "", {}, NoRequirement, 0, "")

NoCall == [signature |-> Undef, expectedAmount |-> 0, expectedRecipient |-> ""]

\* Faulty variant of Bypass: the query value is compared with the boolean true.
BypassComparesBoolean(r) == StrictEquals(r.mock, Bool(TRUE))

\* req.query.mock === 'true'
Bypass(r) == StrictEquals(r.mock, Str("true"))

\* Faulty variant of PaymentRequired: the body leaves out the payment object.
PaymentRequiredWithoutRequirement(requiredAmount) ==
    Response(402, "Payment Required", {"error", "message"}, NoRequirement,
             0, "requirePayment")

\* The 402 sent when the request has no payment header.
PaymentRequired(requiredAmount) ==
    Response(402, "Payment Required", {"error", "message", "payment"},
             PaymentRequirement(requiredAmount), 0, "requirePayment")

\* The 400 sent when parseX402Header returned null.
InvalidPaymentHeader ==
    Response(400, "Invalid Payment Header", {"error", "message"},
             NoRequirement, 0, "requirePayment")

\* The 402 sent when the proof's amount is below the required amount.
InsufficientPayment(requiredAmount) ==
    Response(402, "Insufficient Payment", {"error", "message", "payment"},
             PaymentRequirement(requiredAmount), 0, "requirePayment")

\* The 400 sent when the proof names another recipient.
InvalidRecipient ==
    Response(400, "Invalid Recipient", {"error", "message"}, NoRequirement,
             0, "requirePayment")

\* Faulty variant of VerifyArgs: the amount the client claims is verified.
VerifyArgsClaimedAmount(payment, requiredAmount) ==
    [signature |-> payment.signature, expectedAmount |-> payment.amount.n,
     expectedRecipient |-> RECIPIENT_WALLET]

\* The arguments of the verifyPayment call.
VerifyArgs(payment, requiredAmount) ==
    [signature |-> payment.signature, expectedAmount |-> requiredAmount,
     expectedRecipient |-> RECIPIENT_WALLET]

\* Faulty variant of CheckPayment: the recipient is checked before the amount.
CheckPaymentRecipientFirst(requiredAmount, payment) ==
    IF payment.isNull
    THEN [do |-> "respond",
          res |-> Response(400, "Invalid Payment Header", {"error", "message"},
                           NoRequirement, 0, "requirePayment"),
          call |-> NoCall]
    ELSE IF ~StrictEquals(payment.recipient, Str(RECIPIENT_WALLET))
    THEN [do |-> "respond",
          res |-> Response(400, "Invalid Recipient", {"error", "message"},
                           NoRequirement, 0, "requirePayment"),
          call |-> NoCall]
    ELSE IF LessThan(payment.amount, Num(requiredAmount))
    THEN [do |-> "respond",
          res |-> Response(402, "Insufficient Payment",
                           {"error", "message", "payment"},
                           PaymentRequirement(requiredAmount), 0,
                           "requirePayment"),
          call |-> NoCall]
    ELSE [do |-> "verify", res |-> NoResponse,
          call |-> [signature |-> payment.signature,
                    expectedAmount |-> requiredAmount,
                    expectedRecipient |-> RECIPIENT_WALLET]]

\* Faulty variant of CheckPayment: the recipient is compared only when the proof
\* names one.
CheckPaymentOptionalRecipient(requiredAmount, payment) ==
    IF payment.isNull
    THEN [do |-> "respond",
          res |-> Response(400, "Invalid Payment Header", {"error", "message"},
                           NoRequirement, 0, "requirePayment"),
          call |-> NoCall]
    ELSE IF LessThan(payment.amount, Num(requiredAmount))
    THEN [do |-> "respond",
          res |-> Response(402, "Insufficient Payment",
                           {"error", "message", "payment"},
                           PaymentRequirement(requiredAmount), 0,
                           "requirePayment"),
          call |-> NoCall]
    ELSE IF Truthy(payment.recipient)
            /\ ~StrictEquals(payment.recipient, Str(RECIPIENT_WALLET))
    THEN [do |-> "respond",
          res |-> Response(400, "Invalid Recipient", {"error", "message"},
                           NoRequirement, 0, "requirePayment"),
          call |-> NoCall]
    ELSE [do |-> "verify", res |-> NoResponse,
          call |-> [signature |-> payment.signature,
                    expectedAmount |-> requiredAmount,
                    expectedRecipient |-> RECIPIENT_WALLET]]

\* Faulty variant of CheckPayment: the asset the proof names is compared
\* with the configured one.
CheckPaymentAssetChecked(requiredAmount, payment) ==
    IF payment.isNull
    THEN [do |-> "respond", res |-> InvalidPaymentHeader, call |-> NoCall]
    ELSE IF LessThan(payment.amount, Num(requiredAmount))
    THEN [do |-> "respond", res |-> InsufficientPayment(requiredAmount),
          call |-> NoCall]
    ELSE IF ~StrictEquals(payment.recipient, Str(RECIPIENT_WALLET))
            \/ ~StrictEquals(payment.token, Str(USDC_MINT))
    THEN [do |-> "respond", res |-> InvalidRecipient, call |-> NoCall]
    ELSE [do |-> "verify", res |-> NoResponse,
          call |-> VerifyArgs(payment, requiredAmount)]

\* The checks of the middleware on the parsed header, in the order of the
\* code: null, amount, recipient, then the on-chain verification.
CheckPayment(requiredAmount, payment) ==
    IF payment.isNull
    THEN [do |-> "respond", res |-> InvalidPaymentHeader, call |-> NoCall]
    ELSE IF LessThan(payment.amount, Num(requiredAmount))
    THEN [do |-> "respond", res |-> InsufficientPayment(requiredAmount),
          call |-> NoCall]
    ELSE IF ~StrictEquals(payment.recipient, Str(RECIPIENT_WALLET))
    THEN [do |-> "respond", res |-> InvalidRecipient, call |-> NoCall]
    ELSE [do |-> "verify", res |-> NoResponse,
          call |-> VerifyArgs(payment, requiredAmount)]

\* The synchronous part of the middleware requirePayment(requiredAmount) on
\* request r: it calls next, sends a response, or calls verifyPayment.
requirePayment(requiredAmount, r) ==
    IF Bypass(r)
    THEN [do |-> "next", res |-> NoResponse, call |-> NoCall]
    ELSE IF HeaderMissing(r.header)
    THEN [do |-> "respond", res |-> PaymentRequired(requiredAmount),
          call |-> NoCall]
    ELSE CheckPayment(requiredAmount, parseX402Header(r.header, r.now))

\* The response of the middleware when verifyPayment returned false.
VerificationFailed ==
    Response(402, "Payment Verification Failed", {"error", "message"},
             NoRequirement, 0, "requirePayment")

----------------------------------------------------------------------------
(* The protected route handlers (server.ts 250-442).  getBestYields,       *)
(* getPortfolioAnalytics and calculateRiskScore catch their own errors, so *)
(* a handler that passed its checks answers 200.                           *)

ValidTypes == {"yield", "portfolio", "risk", "all"}

\* Faulty variant of WalletError: the address is not validated.
WalletErrorPresenceOnly(wallet) ==
    IF ~Truthy(wallet) THEN "Missing Wallet" ELSE ""

\* The wallet checks of a handler: "" when the wallet passes.
WalletError(wallet) ==
    IF ~Truthy(wallet) THEN "Missing Wallet"
    ELSE IF wallet.t # "string" \/ ~IsPublicKey(wallet.s)
         THEN "Invalid Wallet Address"
         ELSE ""

BadRequest(error, by) ==
    Response(400, error, {"error", "message"}, NoRequirement, 0, by)

\* The handler of r.route up to its first await: it sends a 400 or starts
\* computing.
HandlerStart(r) ==
    IF r.route = "/best-yield"
    THEN [do |-> "compute", res |-> NoResponse]
    ELSE IF r.route \in {"/portfolio-analytics/:wallet", "/risk-score/:wallet"}
    THEN IF WalletError(r.wallet) # ""
         THEN [do |-> "respond", res |-> BadRequest(WalletError(r.wallet), r.route)]
         ELSE [do |-> "compute", res |-> NoResponse]
    ELSE IF ~Truthy(r.type) \/ r.type.s \notin ValidTypes
    THEN [do |-> "respond",
          res |-> Response(400, "Invalid Type", {"error", "message", "example"},
                           NoRequirement, 0, r.route)]
    ELSE IF r.type.s \in {"portfolio", "risk"} /\ WalletError(r.wallet) # ""
    THEN [do |-> "respond",
          res |-> IF WalletError(r.wallet) = "Missing Wallet"
                  THEN Response(400, "Missing Wallet",
                                {"error", "message", "example"},
                                NoRequirement, 0, r.route)
                  ELSE BadRequest(WalletError(r.wallet), r.route)]
    ELSE [do |-> "compute", res |-> NoResponse]

\* The response of the handler of r.route once its computations returned.
\* With type=all the wallet is checked after getBestYields was awaited.
HandlerFinish(r) ==
    IF r.route = "/api/defi-intel"
    THEN IF r.type.s = "all" /\ WalletError(r.wallet) # ""
         THEN IF WalletError(r.wallet) = "Missing Wallet"
              THEN Response(400, "Missing Wallet",
                            {"error", "message", "example"},
                            NoRequirement, 0, r.route)
              ELSE BadRequest(WalletError(r.wallet), r.route)
         ELSE Response(200, "",
                       {"success", "jobId", "type", "timestamp", "network",
                        "data", "paid"},
                       NoRequirement, RequiredAmount(r.route), r.route)
    ELSE Response(200, "", {"success", "data", "paid"}, NoRequirement,
                  RequiredAmount(r.route), r.route)

----------------------------------------------------------------------------
(* The inputs of the model.                                                *)

\* The values of Date.now().
ClockValues == {1}

Signatures == {"SigA", "SigB"}

\* The members of the header objects of the model.
AmountValues ==
    {Undef, Null, Num(0), Num(49999), Num(50000), Num(100000), Str("abc"),
     Str("50000")}
ValueValues == {Undef, Num(100000)}
RecipientValues == {Undef, Str(RECIPIENT_WALLET), Str("PayerWallet")}
SignatureValues == {Undef} \cup {Str(x) : x \in Signatures}

ProofObject(amount, value, recipient, signature) ==
    Header("object",
           [k \in AliasKeys |->
               CASE k = "amount"    -> amount
                 [] k = "value"     -> value
                 [] k = "recipient" -> recipient
                 [] k = "signature" -> signature
                 [] OTHER           -> Undef])

Headers ==
    {Header(kind, NoProps) :
        kind \in {"absent", "empty", "text", "null", "primitive", "array"}}
    \cup {ProofObject(a, v, rc, sg) :
            a \in AmountValues, v \in ValueValues, rc \in RecipientValues,
            sg \in SignatureValues}

MockValues == {Undef, Str("true"), Str("1")}

WalletParams == {Str("HolderWallet"), Str("not-an-address")}

TypeValues == {Undef, Str("yield"), Str("risk"), Str("all"), Str("swap")}

Request(route, mock, header, wallet, type, now) ==
    [route |-> route, mock |-> mock, header |-> header, wallet |-> wallet,
     type |-> type, now |-> now]

NoRequest == Request("", Undef, Header("absent", NoProps), Undef, Undef, 0)

\* A request of a path-parameter route always carries a wallet; only
\* /api/defi-intel reads type and may lack the wallet.
Requests ==
    {Request("/best-yield", m, h, Undef, Undef, now) :
        m \in MockValues, h \in Headers, now \in ClockValues}
    \cup {Request(rt, m, h, w, Undef, now) :
            rt \in {"/portfolio-analytics/:wallet", "/risk-score/:wallet"},
            m \in MockValues, h \in Headers, w \in WalletParams,
            now \in ClockValues}
    \cup {Request("/api/defi-intel", m, h, w, ty, now) :
            m \in MockValues, h \in Headers,
            w \in WalletParams \cup {Undef}, ty \in TypeValues,
            now \in ClockValues}

\* No answer of getTransaction yet.
TxNone      == Tx("none", FALSE, <<>>, <<>>, <<>>, TRUE)
\* The transactions the ledger of the model may hold for a signature.
TxRpcError  == Tx("rpcError", FALSE, <<>>, <<>>, <<>>, TRUE)
TxNull      == Tx("null", FALSE, <<>>, <<>>, <<>>, TRUE)
TxNoMeta    == Tx("noMeta", FALSE, <<>>, <<>>, <<>>, TRUE)
RecipientAta == getAssociatedTokenAddress(USDC_MINT, RECIPIENT_WALLET)
PayerAta     == getAssociatedTokenAddress(USDC_MINT, "PayerWallet")
\* A transfer of amount units of the configured asset from the payer to
\* the recipient's token account.
TxTransfer(err, amount) ==
    Tx("found", err,
       <<Balance(0, USDC_MINT, "0"), Balance(1, USDC_MINT, amount)>>,
       <<Balance(0, USDC_MINT, amount), Balance(1, USDC_MINT, "0")>>,
       <<PayerAta, RecipientAta>>, TRUE)
\* A successful transaction that moves no tokens.
TxUnrelated == Tx("found", FALSE, <<>>, <<>>, <<>>, TRUE)

LedgerTxs ==
    {TxNull, TxTransfer(TRUE, "50000"), TxTransfer(FALSE, "50000"),
     TxUnrelated}

\* connection.getTransaction(signature) on a signature string.
getTransaction(chain, signature) == chain[signature.s]

----------------------------------------------------------------------------
(* The yield aggregation (yield.ts).  APY numbers are fixed-point with     *)
(* four decimals: 78500 stands for 7.85 (percent), 785 for 0.0785.  TVL    *)
(* and balances are whole numbers.                                         *)

\* A YieldOpportunity; vault is "" when the record has none.
Opportunity(protocol, token, apy, tvl, type, vault, riskLevel) ==
    [protocol |-> protocol, token |-> token, apy |-> apy, tvl |-> tvl,
     type |-> type, vault |-> vault, riskLevel |-> riskLevel]

getMockKaminoYields ==
    <<Opportunity("Kamino", "SOL", 78500, 15420000, "liquidity",
                  "SOL-USDC Concentrated Liquidity", "low"),
      Opportunity("Kamino", "USDC", 123000, 8750000, "lending",
                  "USDC Lending Vault", "low"),
      Opportunity("Kamino", "JUP", 185000, 2100000, "liquidity",
                  "JUP-SOL Auto-Compound", "medium")>>

getMockMarginfiYields ==
    <<Opportunity("Marginfi", "SOL", 62000, 12300000, "lending", "", "low"),
      Opportunity("Marginfi", "USDC", 98000, 18500000, "lending", "", "low"),
      Opportunity("Marginfi", "USDT", 95000, 6200000, "lending", "", "low")>>

getMockDriftYields ==
    <<Opportunity("Drift", "SOL", 58000, 9800000, "lending", "", "medium"),
      Opportunity("Drift", "USDC", 112000, 14200000, "lending", "", "medium"),
      Opportunity("Drift", "BTC", 45000, 3500000, "lending", "", "medium")>>

\* s.slice(0, n)
Slice(s, n) == SubSeq(s, 1, IF Len(s) < n THEN Len(s) ELSE n)

\* A strategy of the Kamino response.  A number member that is absent is 0
\* and a string member that is absent is "": every read of them is
\* "member || default", which treats both alike.
Strategy(apy, aprLatest, symbol, tokenSymbol, tvl, name) ==
    [apy |-> apy, aprLatest |-> aprLatest, symbol |-> symbol,
     tokenSymbol |-> tokenSymbol, tvl |-> tvl, name |-> name]

\* strategy.apy || strategy.aprLatest || 0
StrategyApy(strategy) ==
    IF strategy.apy # 0 THEN strategy.apy ELSE strategy.aprLatest

\* The riskLevel of a Kamino strategy with the given tvl.
KaminoRiskLevel(tvl) ==
    IF tvl > 1000000 THEN "low"
    ELSE IF tvl > 100000 THEN "medium" ELSE "high"

\* The opportunity pushed for a strategy whose apy is positive.
KaminoOpportunity(strategy) ==
    Opportunity("Kamino",
                IF strategy.symbol # "" THEN strategy.symbol
                ELSE IF strategy.tokenSymbol # "" THEN strategy.tokenSymbol
                ELSE "LP",
                StrategyApy(strategy) * 100,
                strategy.tvl,
                "liquidity",
                IF strategy.name # "" THEN strategy.name ELSE "Strategy",
                KaminoRiskLevel(strategy.tvl))

\* The loop of fetchKaminoYields over strategies from index i on.
RECURSIVE KaminoOpportunities(_, _)
KaminoOpportunities(strategies, i) ==
    IF i > Len(strategies) THEN <<>>
    ELSE IF StrategyApy(strategies[i]) > 0
         THEN <<KaminoOpportunity(strategies[i])>>
              \o KaminoOpportunities(strategies, i + 1)
         ELSE KaminoOpportunities(strategies, i + 1)

\* The number of strategies fetchKaminoYields looks at.
KAMINO_STRATEGIES == 10

\* A settled provider fetch: value is what the promise was fulfilled with,
\* fallback whether that is the provider's static table, outcome what
\* happened to the request ("ok", "error", "timeout", "static", or
\* "pending" while it has not settled) and data what the provider sent.
Fetch(status, value, fallback, outcome, data) ==
    [status |-> status, value |-> value, fallback |-> fallback,
     outcome |-> outcome, data |-> data]

NoFetch == Fetch("none", <<>>, FALSE, "none", <<>>)
Pending == Fetch("pending", <<>>, FALSE, "pending", <<>>)

\* fetchKaminoYields(): outcome is that of axios.get, data is response.data.
fetchKaminoYields(outcome, data) ==
    IF outcome # "ok"
    THEN Fetch("fulfilled", getMockKaminoYields, TRUE, outcome, data)
    ELSE LET opportunities ==
                 KaminoOpportunities(Slice(data, KAMINO_STRATEGIES), 1)
         IN  IF Len(opportunities) > 0
             THEN Fetch("fulfilled", opportunities, FALSE, outcome, data)
             ELSE Fetch("fulfilled", getMockKaminoYields, TRUE, outcome, data)

\* fetchMarginfiYields(): no request is made.
fetchMarginfiYields ==
    Fetch("fulfilled", getMockMarginfiYields, TRUE, "static", <<>>)

\* A spot market account of the Drift client.
Market(name, depositBalance, borrowBalance) ==
    [name |-> name, depositBalance |-> depositBalance,
     borrowBalance |-> borrowBalance]

\* The opportunity pushed for a market with deposits: the APY is
\* borrowBalance / depositBalance * 15, rounded down to four decimals.
DriftOpportunity(market) ==
    Opportunity("Drift",
                IF market.name # "" THEN market.name ELSE "UNKNOWN",
                (market.borrowBalance * 15 * 10000) \div market.depositBalance,
                market.depositBalance, "lending", "", "medium")

\* The loop of fetchDriftYields over markets from index i on.
RECURSIVE DriftOpportunities(_, _)
DriftOpportunities(markets, i) ==
    IF i > Len(markets) THEN <<>>
    ELSE IF markets[i].depositBalance > 0
         THEN <<DriftOpportunity(markets[i])>>
              \o DriftOpportunities(markets, i + 1)
         ELSE DriftOpportunities(markets, i + 1)

\* The number of markets fetchDriftYields looks at.
DRIFT_MARKETS == 5

\* Faulty variant of fetchDriftYields: a failure contributes nothing.
fetchDriftYieldsNoFallback(outcome, data) ==
    IF outcome # "ok"
    THEN Fetch("fulfilled", <<>>, TRUE, outcome, data)
    ELSE Fetch("fulfilled",
               DriftOpportunities(Slice(data, DRIFT_MARKETS), 1),
               FALSE, outcome, data)

\* fetchDriftYields(): outcome is that of driftClient.subscribe(), data
\* what getSpotMarketAccounts() returns.
fetchDriftYields(outcome, data) ==
    IF outcome # "ok"
    THEN Fetch("fulfilled", getMockDriftYields, TRUE, outcome, data)
    ELSE Fetch("fulfilled",
               DriftOpportunities(Slice(data, DRIFT_MARKETS), 1),
               FALSE, outcome, data)

\* Faulty variant of RankByApy: of two entries of the same APY the later
\* one goes first.
RankByApyLaterFirst(s, i) ==
    1 + Cardinality({j \in 1..Len(s) :
                        \/ s[j].apy > s[i].apy
                        \/ (s[j].apy = s[i].apy /\ j > i)})

\* The place entry i of s has after s.sort((a, b) => b.apy - a.apy): behind
\* the entries of greater APY and, Array.prototype.sort being stable,
\* behind the earlier entries of the same APY.
RankByApy(s, i) ==
    1 + Cardinality({j \in 1..Len(s) :
                        \/ s[j].apy > s[i].apy
                        \/ (s[j].apy = s[i].apy /\ j < i)})

\* s.sort((a, b) => b.apy - a.apy)
SortByApy(s) ==
    [k \in 1..Len(s) |-> s[CHOOSE i \in 1..Len(s) : RankByApy(s, i) = k]]

\* The number of opportunities getBestYields returns at most.
TOP_OPPORTUNITIES == 10

\* A BestYieldResponse; source "none" before getBestYields returned.
BestYieldResponse(topOpportunities, timestamp, source) ==
    [topOpportunities |-> topOpportunities, timestamp |-> timestamp,
     source |-> source]

NoBestYields == BestYieldResponse(<<>>, 0, "none")

\* The response of the mock branch and of the catch branch.
MockBestYields(now) ==
    BestYieldResponse(
        Slice(SortByApy(getMockKaminoYields \o getMockMarginfiYields
                        \o getMockDriftYields),
              TOP_OPPORTUNITIES),
        now, "mock")

\* The value a settled promise adds to allOpportunities.
Fulfilled(f) == IF f.status = "fulfilled" THEN f.value ELSE <<>>

\* allOpportunities.length > 0 ? 'live' : 'mock'
SourceOf(allOpportunities) ==
    IF Len(allOpportunities) > 0 THEN "live" ELSE "mock"

\* What getBestYields returns once Promise.allSettled resolved with f.
MergedBestYields(f, now) ==
    LET allOpportunities ==
            Fulfilled(f.kamino) \o Fulfilled(f.marginfi) \o Fulfilled(f.drift)
    IN  BestYieldResponse(
            Slice(SortByApy(allOpportunities), TOP_OPPORTUNITIES),
            now, SourceOf(allOpportunities))

NoFetches == [kamino |-> NoFetch, marginfi |-> NoFetch, drift |-> NoFetch]

NoYieldCall == [useMock |-> FALSE, now |-> 0]

----------------------------------------------------------------------------
(* Numbers of the price service and of the portfolio: exact fractions      *)
(* n / d in lowest terms with d > 0, the infinities (d = 0) and NaN.       *)
(* Rounding of binary floating point is not modelled.                      *)

RECURSIVE GCD(_, _)
GCD(a, b) == IF b = 0 THEN a ELSE GCD(b, a % b)

\* The fraction n / d (d >= 0) in lowest terms; d = 0 gives Infinity
\* (n > 0), -Infinity (n < 0) and NaN (n = 0).
Q(n, d) ==
    IF n = 0 /\ d = 0 THEN [nan |-> TRUE, n |-> 0, d |-> 1]
    ELSE LET g == GCD(IF n < 0 THEN -n ELSE n, d)
         IN  [nan |-> FALSE, n |-> n \div g, d |-> d \div g]

NotANumber == [nan |-> TRUE, n |-> 0, d |-> 1]

\* x * y and x + y; common factors are taken out before multiplying, so
\* that the intermediate integers stay small.
Times(x, y) ==
    IF x.nan \/ y.nan THEN NotANumber
    ELSE LET a == Q(x.n, y.d)
             b == Q(y.n, x.d)
         IN  IF a.nan \/ b.nan THEN NotANumber ELSE Q(a.n * b.n, a.d * b.d)
Plus(x, y) ==
    IF x.nan \/ y.nan THEN NotANumber
    ELSE IF x.d = 0 \/ y.d = 0 THEN Q(x.n * y.d + y.n * x.d, x.d * y.d)
    ELSE LET g == GCD(x.d, y.d)
         IN  Q(x.n * (y.d \div g) + y.n * (x.d \div g), x.d * (y.d \div g))

\* x / y
Over(x, y) ==
    IF x.nan \/ y.nan THEN NotANumber
    ELSE IF y.n < 0 THEN Times(x, Q(-y.d, -y.n))
    ELSE Times(x, Q(y.d, y.n))

\* x < y and x > y; both are false when either side is NaN.
Less(x, y) ==
    /\ ~x.nan
    /\ ~y.nan
    /\ IF x.d = 0 /\ y.d = 0 THEN x.n < y.n
       ELSE LET g == GCD(x.d, y.d)
            IN  x.n * (y.d \div g) < y.n * (x.d \div g)
Greater(x, y) == Less(y, x)

\* Math.max(x, y) and Math.min(x, y): NaN when either is NaN.
MathMax(x, y) ==
    IF x.nan \/ y.nan THEN NotANumber ELSE IF Less(x, y) THEN y ELSE x
MathMin(x, y) ==
    IF x.nan \/ y.nan THEN NotANumber ELSE IF Less(y, x) THEN y ELSE x

\* Math.pow(10, k) for k >= 0
RECURSIVE Pow10(_)
Pow10(k) == IF k = 0 THEN 1 ELSE 10 * Pow10(k - 1)

\* m * Math.pow(10, expo)
Scaled(m, expo) == IF expo >= 0 THEN Q(m * Pow10(expo), 1) ELSE Q(m, Pow10(-expo))

----------------------------------------------------------------------------
(* The price service (src/unnamed/part_000).                               *)

\* The keys of PRICE_FEED_IDS.
PRICE_FEED_IDS ==
    {"SOL_USD", "USDC_USD", "USDT_USD", "BTC_USD", "ETH_USD", "BONK_USD",
     "JUP_USD"}

\* The symbols of the model: those of the price table, one of them in
\* lower case, one no table has, and names every JavaScript object
\* inherits from Object.prototype.
Symbols ==
    {"SOL", "USDC", "USDT", "BTC", "ETH", "BONK", "JUP", "sol", "XYZ",
     "constructor", "toString"}

\* symbol.toUpperCase() on the symbols of the model.
ToUpperCase(symbol) ==
    CASE symbol = "sol"         -> "SOL"
      [] symbol = "constructor" -> "CONSTRUCTOR"
      [] symbol = "toString"    -> "TOSTRING"
      [] OTHER                  -> symbol

\* The key getFeedId looks up: `${symbol.toUpperCase()}_USD`.
FeedKey(symbol) ==
    CASE ToUpperCase(symbol) = "SOL"  -> "SOL_USD"
      [] ToUpperCase(symbol) = "USDC" -> "USDC_USD"
      [] ToUpperCase(symbol) = "USDT" -> "USDT_USD"
      [] ToUpperCase(symbol) = "BTC"  -> "BTC_USD"
      [] ToUpperCase(symbol) = "ETH"  -> "ETH_USD"
      [] ToUpperCase(symbol) = "BONK" -> "BONK_USD"
      [] ToUpperCase(symbol) = "JUP"  -> "JUP_USD"
      [] OTHER                        -> "OTHER_USD"

\* getFeedId(symbol): "" stands for null.
getFeedId(symbol) ==
    IF FeedKey(symbol) \in PRICE_FEED_IDS THEN FeedKey(symbol) ELSE ""

\* The members of the object literal mockPrices.
mockPrices ==
    [SOL |-> Q(197, 2), USDC |-> Q(1, 1), USDT |-> Q(1, 1),
     BTC |-> Q(42000, 1), ETH |-> Q(2200, 1), BONK |-> Q(3, 200000),
     JUP |-> Q(17, 20)]

\* The members mockPrices inherits from Object.prototype; they are
\* functions.
ObjectPrototypeMembers ==
    {"constructor", "toString", "valueOf", "hasOwnProperty"}

\* mockPrices[symbol] || 1.0, as a number: a member of the literal is its
\* price, an inherited member is a function, which is truthy and is not a
\* number, and any other symbol reads undefined and gets 1.0.
MockPrice(symbol) ==
    IF symbol \in DOMAIN mockPrices THEN mockPrices[symbol]
    ELSE IF symbol \in ObjectPrototypeMembers THEN NotANumber
    ELSE Q(1, 1)

\* A TokenPrice; found is FALSE for null.
TokenPrice(found, price) == [found |-> found, price |-> price]

NoTokenPrice == TokenPrice(FALSE, NotANumber)

\* getMockPrice(symbol)
getMockPrice(symbol) == TokenPrice(TRUE, MockPrice(symbol))

\* What client.getLatestPriceUpdates([feedId]) answers:
\*   throws     the call rejects
\*   empty      no priceUpdates, no parsed list or an empty one
\*   malformed  parsed[0] has no price member
\*   price      parsed[0].price is { price: mantissa, expo }
Updates(kind, mantissa, expo) ==
    [kind |-> kind, mantissa |-> mantissa, expo |-> expo]

NoUpdates == Updates("none", 0, 0)

\* getPrice(symbol) once the feed answered u (not called without a feed).
\* Reading publish_time of a missing price member throws into the catch.
getPrice(symbol, u) ==
    IF getFeedId(symbol) = "" THEN NoTokenPrice
    ELSE IF u.kind \in {"throws", "empty", "malformed"} THEN NoTokenPrice
    ELSE TokenPrice(TRUE, Scaled(u.mantissa, u.expo))

\* symbols.map(getFeedId).filter(id => id !== null), from index i on.
RECURSIVE FeedIdsOf(_, _)
FeedIdsOf(symbols, i) ==
    IF i > Len(symbols) THEN <<>>
    ELSE IF getFeedId(symbols[i]) = "" THEN FeedIdsOf(symbols, i + 1)
    ELSE <<getFeedId(symbols[i])>> \o FeedIdsOf(symbols, i + 1)

\* prices.set(key, value) on a map held as a function.
MapSet(map, key, value) ==
    [k \in DOMAIN map \cup {key} |-> IF k = key THEN value ELSE map[k]]

\* The loop of getPrices over priceUpdates.parsed from index i on: entry i
\* is stored under symbols[i]; an entry without a price member is skipped.
RECURSIVE SetPrices(_, _, _, _)
SetPrices(symbols, parsed, i, map) ==
    IF i > Len(parsed) THEN map
    ELSE IF parsed[i].kind # "price"
    THEN SetPrices(symbols, parsed, i + 1, map)
    ELSE SetPrices(symbols, parsed, i + 1,
                   MapSet(map, symbols[i],
                          [symbol |-> symbols[i],
                           price |-> Scaled(parsed[i].mantissa,
                                            parsed[i].expo)]))

\* getPrices(symbols) once getLatestPriceUpdates(feedIds) answered: kind
\* is "throws", "empty" (no answer or no parsed list) or "parsed".
getPrices(symbols, answer) ==
    IF answer.kind # "parsed" THEN <<>>
    ELSE SetPrices(symbols, answer.parsed, 1, <<>>)

\* The value calculateUsdValue returns for the price data it got.
UsdValue(symbol, amount, priceData) ==
    IF ~priceData.found
    THEN Times(amount, getMockPrice(symbol).price)
    ELSE Times(amount, priceData.price)

NoPriceCall == [symbol |-> "", amount |-> NotANumber, useMock |-> FALSE]

----------------------------------------------------------------------------
(* The portfolio snapshot (portfolio.ts).                                  *)

SOL_MINT == "So11111111111111111111111111111111111111112"

\* A TokenBalance (balance and decimals, which nothing reads, left out).
TokenBalance(mint, symbol, uiAmount, usd) ==
    [mint |-> mint, symbol |-> symbol, uiAmount |-> uiAmount,
     usdValue |-> usd]

\* A PortfolioPosition; apy with four decimals as in the yield tables.
PortfolioPosition(protocol, type, token, amount, usd, apy) ==
    [protocol |-> protocol, type |-> type, token |-> token,
     amount |-> amount, usdValue |-> usd, apy |-> apy]

getMockTokenBalances ==
    <<TokenBalance(USDC_MINT, "USDC", Q(5000, 1), Q(5000, 1)),
      TokenBalance(SOL_MINT, "SOL", Q(50, 1), Q(4925, 1))>>

getMockDefiPositions ==
    <<PortfolioPosition("Marginfi", "lending", "USDC", Q(2500, 1),
                        Q(2500, 1), 98000),
      PortfolioPosition("Kamino", "liquidity", "SOL-USDC", Q(422375, 1000),
                        Q(422375, 1000), 123000)>>

\* A parsed token account: parsed.info.mint and tokenAmount.uiAmount.
TokenAccount(mint, uiAmount) == [mint |-> mint, uiAmount |-> uiAmount]

\* The mints of the model, the third one of a token no table knows.
Mints == {USDC_MINT, SOL_MINT, "XYZ9tokenMint"}

\* knownMints[mint] || mint.slice(0, 4) on the mints of the model.
SymbolOfMint(mint) ==
    CASE mint = USDC_MINT -> "USDC"
      [] mint = SOL_MINT  -> "SOL"
      [] OTHER            -> "XYZ9"

\* Faulty variant of TokenBalancesFrom: accounts holding nothing are
\* listed too.
RECURSIVE TokenBalancesFromEveryAccount(_, _)
TokenBalancesFromEveryAccount(accounts, i) ==
    IF i > Len(accounts) THEN <<>>
    ELSE LET account == accounts[i]
             symbol == SymbolOfMint(account.mint)
         IN  <<TokenBalance(account.mint, symbol, account.uiAmount,
                            UsdValue(symbol, account.uiAmount,
                                     getMockPrice(symbol)))>>
             \o TokenBalancesFromEveryAccount(accounts, i + 1)

\* The loop of getTokenBalances over accounts from index i on; the value
\* of each balance is calculateUsdValue(symbol, uiAmount, true).
RECURSIVE TokenBalancesFrom(_, _)
TokenBalancesFrom(accounts, i) ==
    IF i > Len(accounts) THEN <<>>
    ELSE LET account == accounts[i]
             symbol == SymbolOfMint(account.mint)
         IN  IF account.uiAmount.n > 0
             THEN <<TokenBalance(account.mint, symbol, account.uiAmount,
                                 UsdValue(symbol, account.uiAmount,
                                          getMockPrice(symbol)))>>
                  \o TokenBalancesFrom(accounts, i + 1)
             ELSE TokenBalancesFrom(accounts, i + 1)

\* getTokenBalances(connection, wallet): answer is what
\* getParsedTokenAccountsByOwner gave, "throws" when it rejected.
getTokenBalances(answer) ==
    IF answer.kind = "throws" THEN <<>>
    ELSE TokenBalancesFrom(answer.value, 1)

\* Faulty variant of getMarginfiPositions: the static positions are
\* returned for a live wallet.
getMarginfiPositionsStatic == getMockDefiPositions

\* getMarginfiPositions(connection, wallet)
getMarginfiPositions == <<>>

\* list.reduce((sum, x) => sum + x.usdValue, 0) from index i on.
RECURSIVE SumUsdValue(_, _, _)
SumUsdValue(list, i, sum) ==
    IF i > Len(list) THEN sum
    ELSE SumUsdValue(list, i + 1, Plus(sum, list[i].usdValue))

LAMPORTS_PER_SOL == 1000000000

\* A PortfolioAnalytics; path tells which return statement built it.
PortfolioAnalytics(wallet, sol, solUsd, tokens, positions, total, path) ==
    [wallet |-> wallet, solBalance |-> sol, solUsdValue |-> solUsd,
     tokenBalances |-> tokens, defiPositions |-> positions,
     totalUsdValue |-> total, path |-> path]

NoAnalytics ==
    PortfolioAnalytics("", NotANumber, NotANumber, <<>>, <<>>, NotANumber,
                       "none")

\* The snapshot of the try block, for the balance read and the lists got.
ComputedAnalytics(wallet, lamports, tokenBalances, defiPositions) ==
    LET solUiAmount == Q(lamports, LAMPORTS_PER_SOL)
        solUsdValue == UsdValue("SOL", solUiAmount, getMockPrice("SOL"))
        tokenUsdValue == SumUsdValue(tokenBalances, 1, Q(0, 1))
        defiUsdValue == SumUsdValue(defiPositions, 1, Q(0, 1))
    IN  PortfolioAnalytics(
            wallet, solUiAmount, solUsdValue, tokenBalances, defiPositions,
            Plus(Plus(solUsdValue, tokenUsdValue), defiUsdValue),
            "computed")

\* The snapshot of the catch block.
FallbackAnalytics(wallet) ==
    PortfolioAnalytics(wallet, Q(525, 100), Q(517125, 1000),
                       getMockTokenBalances, getMockDefiPositions,
                       Q(128475, 10), "fallback")

NoPortfolioCall == [wallet |-> "", useMock |-> FALSE, lamports |-> 0]

----------------------------------------------------------------------------
(* The risk score (portfolio.ts, calculateRiskScore).                      *)

\* healthFactor is declared and never assigned.
NoHealthFactor == [defined |-> FALSE, value |-> NotANumber]

\* A RiskScore.
RiskScore(wallet, score, level, health, conc, liq, div, warnings) ==
    [wallet |-> wallet, overallScore |-> score, riskLevel |-> level,
     healthFactor |-> health, concentrationRisk |-> conc,
     liquidationRisk |-> liq, protocolDiversification |-> div,
     warnings |-> warnings]

NoRiskScore ==
    RiskScore("", NotANumber, "", NoHealthFactor, NotANumber, NotANumber,
              NotANumber, <<>>)

\* Math.max(...tokenBalances.map(t => t.usdValue / totalValue), 0) from
\* index i on, with the maximum so far.
RECURSIVE MaxConcentration(_, _, _, _)
MaxConcentration(tokenBalances, totalValue, i, max) ==
    IF i > Len(tokenBalances) THEN max
    ELSE MaxConcentration(
             tokenBalances, totalValue, i + 1,
             MathMax(max, Over(tokenBalances[i].usdValue, totalValue)))

\* The sum of usdValue over the positions of type borrowing, from index i.
RECURSIVE TotalBorrowed(_, _, _)
TotalBorrowed(defiPositions, i, sum) ==
    IF i > Len(defiPositions) THEN sum
    ELSE TotalBorrowed(
             defiPositions, i + 1,
             IF defiPositions[i].type = "borrowing"
             THEN Plus(sum, defiPositions[i].usdValue) ELSE sum)

\* totalBorrowed > 0 ? (totalBorrowed / totalValue) * 100 : 0
LiquidationRisk(totalBorrowed, totalValue) ==
    IF Greater(totalBorrowed, Q(0, 1))
    THEN Times(Over(totalBorrowed, totalValue), Q(100, 1))
    ELSE Q(0, 1)

\* uniqueProtocols.size > 0 ? 100 / uniqueProtocols.size : 100
ProtocolDiversification(defiPositions) ==
    LET uniqueProtocols ==
            {defiPositions[i].protocol : i \in 1..Len(defiPositions)}
    IN  IF Cardinality(uniqueProtocols) > 0
        THEN Q(100, Cardinality(uniqueProtocols))
        ELSE Q(100, 1)

\* healthFactor ? Math.max(0, (2 - healthFactor) * 50) : 10
HealthTerm(healthFactor) ==
    IF healthFactor.defined /\ ~healthFactor.value.nan
       /\ healthFactor.value.n # 0
    THEN MathMax(Q(0, 1),
                 Times(Plus(Q(2, 1), Times(Q(-1, 1), healthFactor.value)),
                       Q(50, 1)))
    ELSE Q(10, 1)

\* Faulty variant of RiskLevel: a score on a threshold stays in the lower
\* level.
RiskLevelInclusive(overallScore) ==
    IF ~Greater(overallScore, Q(25, 1)) THEN "low"
    ELSE IF ~Greater(overallScore, Q(50, 1)) THEN "medium"
    ELSE IF ~Greater(overallScore, Q(75, 1)) THEN "high"
    ELSE "critical"

\* The if chain over overallScore; every comparison with NaN is false.
RiskLevel(overallScore) ==
    IF Less(overallScore, Q(25, 1)) THEN "low"
    ELSE IF Less(overallScore, Q(50, 1)) THEN "medium"
    ELSE IF Less(overallScore, Q(75, 1)) THEN "high"
    ELSE "critical"

\* Faulty variant of Warnings: the concentration warning is pushed at 70%
\* already.
WarningsFromSeventy(maxConcentration, liquidationRisk, defiPositions) ==
    (IF ~Less(maxConcentration, Q(7, 10))
     THEN <<"High concentration risk: Over 70% in single asset">>
     ELSE <<>>)
    \o (IF Greater(liquidationRisk, Q(50, 1))
        THEN <<"High liquidation risk: Borrowed amount exceeds 50% of portfolio">>
        ELSE <<>>)
    \o (IF Cardinality({defiPositions[i].protocol :
                           i \in 1..Len(defiPositions)}) = 1
           /\ Len(defiPositions) > 0
        THEN <<"Single protocol exposure - consider diversification">>
        ELSE <<>>)

\* The warnings in the order they are pushed.
Warnings(maxConcentration, liquidationRisk, defiPositions) ==
    (IF Greater(maxConcentration, Q(7, 10))
     THEN <<"High concentration risk: Over 70% in single asset">>
     ELSE <<>>)
    \o (IF Greater(liquidationRisk, Q(50, 1))
        THEN <<"High liquidation risk: Borrowed amount exceeds 50% of portfolio">>
        ELSE <<>>)
    \o (IF Cardinality({defiPositions[i].protocol :
                           i \in 1..Len(defiPositions)}) = 1
           /\ Len(defiPositions) > 0
        THEN <<"Single protocol exposure - consider diversification">>
        ELSE <<>>)

\* calculateRiskScore from the snapshot getPortfolioAnalytics returned.
\* getPortfolioAnalytics catches its own errors and nothing after it
\* throws, so the catch block with getMockRiskScore is not entered.
calculateRiskScore(portfolio) ==
    LET healthFactor == NoHealthFactor
        totalValue == portfolio.totalUsdValue
        maxConcentration ==
            MaxConcentration(portfolio.tokenBalances, totalValue, 1, Q(0, 1))
        concentrationRisk == Times(maxConcentration, Q(100, 1))
        liquidationRisk ==
            LiquidationRisk(TotalBorrowed(portfolio.defiPositions, 1, Q(0, 1)),
                            totalValue)
        protocolDiversification ==
            ProtocolDiversification(portfolio.defiPositions)
        overallScore ==
            MathMin(Q(100, 1),
                    Plus(Plus(Plus(Times(concentrationRisk, Q(3, 10)),
                                   Times(liquidationRisk, Q(4, 10))),
                              Times(protocolDiversification, Q(2, 10))),
                         HealthTerm(healthFactor)))
    IN  RiskScore(portfolio.wallet, overallScore, RiskLevel(overallScore),
                  healthFactor, concentrationRisk, liquidationRisk,
                  protocolDiversification,
                  Warnings(maxConcentration, liquidationRisk,
                           portfolio.defiPositions))

----------------------------------------------------------------------------
(* The request lifecycle.                                                  *)

Init ==
    /\ pc = "idle"
    /\ req = NoRequest
    /\ res = NoResponse
    /\ nextCalled = FALSE
    /\ parsedPayment = NullPayment
    /\ call = NoCall
    /\ ledgerReads = 0
    /\ isValid = "none"
    /\ tx = TxNone
    /\ ledger = [x \in Signatures |-> TxNull]
    /\ authorizedRefs = {}
    /\ yieldCall = NoYieldCall
    /\ fetches = NoFetches
    /\ bestYields = NoBestYields
    /\ priceCall = NoPriceCall
    /\ updates = NoUpdates
    /\ usdValue = NotANumber
    /\ pricesCall = <<>>
    /\ prices = <<>>
    /\ portfolioCall = NoPortfolioCall
    /\ analytics = NoAnalytics
    /\ riskScore = NoRiskScore

\* next(): the route handler runs up to its first await.
CallNext(r) ==
    /\ nextCalled' = TRUE
    /\ LET h == HandlerStart(r)
       IN  IF h.do = "respond"
           THEN res' = h.res /\ pc' = "done"
           ELSE res' = res /\ pc' = "computing"

\* The middleware and, when it calls next, the handler on request r.
Serve(r) ==
    /\ req' = r
    /\ parsedPayment' =
          IF Bypass(r) \/ HeaderMissing(r.header) THEN NullPayment
          ELSE parseX402Header(r.header, r.now)
    /\ LET step == requirePayment(RequiredAmount(r.route), r)
       IN  CASE step.do = "next" ->
                  /\ CallNext(r)
                  /\ UNCHANGED <<call, ledgerReads, isValid>>
             [] step.do = "respond" ->
                  /\ res' = step.res
                  /\ pc' = "done"
                  /\ UNCHANGED <<nextCalled, call, ledgerReads, isValid>>
             [] step.do = "verify" ->
                  /\ call' = step.call
                  /\ ledgerReads' = ledgerReads + 1
                  /\ pc' = "verifying"
                  /\ UNCHANGED <<res, nextCalled, isValid>>
    /\ UNCHANGED <<tx, ledger, authorizedRefs, engineVars>>

\* A request arrives at a protected route: the middleware runs up to its
\* response, its call of next or the getTransaction call of verifyPayment.
HandleRequest ==
    /\ pc = "idle"
    /\ \E r \in Requests : Serve(r)

\* Faulty variant of VerifyPaymentReturns: next is called whatever
\* verifyPayment returned.
VerifyPaymentReturnsAlwaysNext(answer) ==
    /\ tx' = answer
    /\ isValid' = IF verifyPayment(answer, call.expectedAmount,
                                   call.expectedRecipient)
                  THEN "true" ELSE "false"
    /\ CallNext(req)
    /\ UNCHANGED <<req, parsedPayment, call, ledgerReads, ledger,
                   authorizedRefs, engineVars>>

\* verifyPayment returns, its getTransaction call having answered tx: the
\* middleware sends 402 or calls next.
VerifyPaymentReturns(answer) ==
    /\ tx' = answer
    /\ LET ok == verifyPayment(answer, call.expectedAmount,
                               call.expectedRecipient)
       IN  /\ isValid' = IF ok THEN "true" ELSE "false"
           /\ IF ok
              THEN CallNext(req)
              ELSE /\ res' = VerificationFailed
                   /\ pc' = "done"
                   /\ UNCHANGED nextCalled
    /\ UNCHANGED <<req, parsedPayment, call, ledgerReads, ledger,
                   authorizedRefs, engineVars>>

\* Faulty variant of GetTransactionSettles: a signature that authorized a
\* request before is treated as consumed and the lookup as empty.
GetTransactionSettlesUnlessConsumed ==
    /\ pc = "verifying"
    /\ call.signature.t = "string"
    /\ call.signature.s \in DOMAIN ledger
    /\ IF call.signature.s \in authorizedRefs
       THEN VerifyPaymentReturns(TxNull)
       ELSE VerifyPaymentReturns(getTransaction(ledger, call.signature))

\* connection.getTransaction answers with what the ledger holds.
GetTransactionSettles ==
    /\ pc = "verifying"
    /\ call.signature.t = "string"
    /\ call.signature.s \in DOMAIN ledger
    /\ VerifyPaymentReturns(getTransaction(ledger, call.signature))

\* Faulty variant of GetTransactionThrows: a lookup that threw is made
\* once more before the request is given up.
GetTransactionThrowsRetrying ==
    /\ pc = "verifying"
    /\ IF ledgerReads < 2
       THEN /\ ledgerReads' = ledgerReads + 1
            /\ UNCHANGED <<pc, req, res, nextCalled, parsedPayment, call,
                           isValid, tx, ledger, authorizedRefs, engineVars>>
       ELSE VerifyPaymentReturns(TxRpcError)

\* connection.getTransaction throws: the node is unreachable or times out,
\* or the signature is not a signature string.
GetTransactionThrows ==
    /\ pc = "verifying"
    /\ VerifyPaymentReturns(TxRpcError)

\* The computations of the handler return and it sends its response.
HandlerReturns ==
    /\ pc = "computing"
    /\ res' = HandlerFinish(req)
    /\ pc' = "done"
    /\ UNCHANGED <<req, nextCalled, parsedPayment, call, ledgerReads, isValid,
                   tx, ledger, authorizedRefs, engineVars>>

\* The request is over; nothing of it is kept.  The history notes the
\* signature when the request was authorized by a verified payment.
Finish ==
    /\ pc = "done"
    /\ pc' = "idle"
    /\ req' = NoRequest
    /\ res' = NoResponse
    /\ nextCalled' = FALSE
    /\ parsedPayment' = NullPayment
    /\ call' = NoCall
    /\ ledgerReads' = 0
    /\ isValid' = "none"
    /\ tx' = TxNone
    /\ authorizedRefs' =
          IF nextCalled /\ isValid = "true"
          THEN authorizedRefs \cup {call.signature.s}
          ELSE authorizedRefs
    /\ UNCHANGED <<ledger, engineVars>>

\* The chain moves on: the lookup of a signature gets another answer, and
\* the history of that signature starts anew.
LedgerChanges ==
    /\ pc = "idle"
    /\ \E x \in Signatures, t \in LedgerTxs :
          /\ ledger[x] # t
          /\ ledger' = [ledger EXCEPT ![x] = t]
          /\ authorizedRefs' = authorizedRefs \ {x}
    /\ UNCHANGED <<pc, req, res, nextCalled, parsedPayment, call,
                   ledgerReads, isValid, tx, engineVars>>

Next ==
    \/ HandleRequest
    \/ GetTransactionSettles
    \/ GetTransactionThrows
    \/ HandlerReturns
    \/ Finish
    \/ LedgerChanges

Spec == Init /\ [][Next]_vars

----------------------------------------------------------------------------
(* verifyPayment on its own: every call of it over the transactions of     *)
(* TransactionAnswers, each call settled in one step.                      *)

\* The longest postTokenBalances and preTokenBalances lists.
MaxPostBalances == 2
MaxPreBalances == 1

SeqsUpTo(S, n) == UNION {[1..k -> S] : k \in 0..n}

PostBalanceRecords ==
    {Balance(i, m, a) :
        i \in {0, 1}, m \in {USDC_MINT, "OtherMint"},
        a \in {"49001", "50000", "51000"}}

PreBalanceRecords ==
    {Balance(i, USDC_MINT, "1") : i \in {0, 1}}

AccountKeyLists == {<<RecipientAta>>, <<PayerAta, RecipientAta>>}

TransactionAnswers ==
    {TxRpcError, TxNull, TxNoMeta}
    \cup {Tx("found", e, post, pre, keys, rs) :
            e \in BOOLEAN,
            post \in SeqsUpTo(PostBalanceRecords, MaxPostBalances),
            pre \in SeqsUpTo(PreBalanceRecords, MaxPreBalances),
            keys \in AccountKeyLists, rs \in BOOLEAN}

\* RECIPIENT_WALLET is '' when the environment does not set it.
ExpectedRecipients == {RECIPIENT_WALLET, ""}

ExpectedAmounts == {PRICES.BEST_YIELD}

VerifyCall ==
    /\ pc = "idle"
    /\ \E t \in TransactionAnswers, a \in ExpectedAmounts,
          rcp \in ExpectedRecipients :
          /\ call' = [signature |-> Str("SigA"), expectedAmount |-> a,
                      expectedRecipient |-> rcp]
          /\ tx' = t
          /\ isValid' = IF verifyPayment(t, a, rcp) THEN "true" ELSE "false"
    /\ ledgerReads' = 1
    /\ pc' = "verified"
    /\ UNCHANGED <<req, res, nextCalled, parsedPayment, ledger,
                   authorizedRefs, engineVars>>

VerifyReset ==
    /\ pc = "verified"
    /\ pc' = "idle"
    /\ call' = NoCall
    /\ tx' = TxNone
    /\ isValid' = "none"
    /\ ledgerReads' = 0
    /\ UNCHANGED <<req, res, nextCalled, parsedPayment, ledger,
                   authorizedRefs, engineVars>>

NextVerify == VerifyCall \/ VerifyReset

SpecVerify == Init /\ [][NextVerify]_vars

----------------------------------------------------------------------------
(* getBestYields on its own: a call, the three provider fetches settling   *)
(* in any order, and the merge once all of them have settled.              *)

\* The strategies the Kamino API of the model knows; a response is a run of
\* consecutive ones.  (APY as a fraction: 980 stands for 0.098.)
KaminoBook ==
    <<Strategy(2000, 0, "SOL", "", 1000000, "SOL Vault"),
      Strategy(980, 0, "USDC", "", 100000, "USDC Vault"),
      Strategy(0, 1500, "", "JTO", 1000001, "JTO Vault"),
      Strategy(0, 0, "DUST", "", 500000, "Idle Vault"),
      Strategy(980, 0, "", "", 100001, ""),
      Strategy(-50, 0, "LOSS", "", 700000, "Losing Vault"),
      Strategy(3000, 0, "BONK", "", 0, "BONK Vault"),
      Strategy(100, 0, "RAY", "", 99999, "RAY Vault"),
      Strategy(1120, 0, "ORCA", "", 5000000, "ORCA Vault"),
      Strategy(2500, 0, "MSOL", "", 999999, "MSOL Vault"),
      Strategy(450, 0, "WIF", "", 2000000, "WIF Vault"),
      Strategy(4000, 0, "PYTH", "", 100000, "PYTH Vault")>>

\* The spot markets the Drift client of the model knows.
DriftBook ==
    <<Market("SOL", 1000, 500),
      Market("USDC", 0, 0),
      Market("", 200, 100),
      Market("BTC", 300, 0),
      Market("ETH", 1500, 980),
      Market("JUP", 100, 100)>>

\* The runs of consecutive elements of book, the empty one included.
Runs(book) ==
    {<<>>} \cup {SubSeq(book, i, j) : i \in 1..Len(book), j \in 1..Len(book)}

KaminoResponses == Runs(KaminoBook)
DriftMarkets == Runs(DriftBook)

\* getBestYields(connection, useMock) up to its return or its await.  With
\* useMock no provider function is called.
GetBestYields ==
    /\ pc = "idle"
    /\ \E useMock \in BOOLEAN, now \in ClockValues :
          /\ yieldCall' = [useMock |-> useMock, now |-> now]
          /\ IF useMock
             THEN /\ bestYields' = MockBestYields(now)
                  /\ fetches' = NoFetches
                  /\ pc' = "returned"
             ELSE /\ fetches' = [kamino |-> Pending,
                                 marginfi |-> fetchMarginfiYields,
                                 drift |-> Pending]
                  /\ bestYields' = NoBestYields
                  /\ pc' = "fetching"
    /\ UNCHANGED <<gatewayVars, priceVars, portfolioVars>>

\* The fetch of provider p settles with f.
Settle(p, f) ==
    /\ pc = "fetching"
    /\ fetches[p].status = "pending"
    /\ fetches' = [fetches EXCEPT ![p] = f]
    /\ UNCHANGED <<pc, yieldCall, bestYields, gatewayVars, priceVars,
                   portfolioVars>>

\* The Kamino API answers with a list of strategies.
KaminoResponds ==
    \E data \in KaminoResponses :
        Settle("kamino", fetchKaminoYields("ok", data))

\* The Kamino request fails (network error, error status, a body that is
\* not a list).
KaminoFails == Settle("kamino", fetchKaminoYields("error", <<>>))

\* The 5000 ms timeout of the Kamino request expires.
KaminoTimesOut == Settle("kamino", fetchKaminoYields("timeout", <<>>))

\* driftClient.subscribe() resolves and the spot markets are read.
DriftSubscribes ==
    \E data \in DriftMarkets :
        Settle("drift", fetchDriftYields("ok", data))

\* driftClient.subscribe() or a later call of the client throws.
DriftThrows == Settle("drift", fetchDriftYields("error", <<>>))

\* Promise.allSettled resolves: the results are merged, sorted and cut.
AllSettled ==
    /\ pc = "fetching"
    /\ \A p \in DOMAIN fetches : fetches[p].status # "pending"
    /\ bestYields' = MergedBestYields(fetches, yieldCall.now)
    /\ pc' = "returned"
    /\ UNCHANGED <<yieldCall, fetches, gatewayVars, priceVars, portfolioVars>>

\* The caller has the response; nothing of the call is kept.
YieldReset ==
    /\ pc = "returned"
    /\ pc' = "idle"
    /\ yieldCall' = NoYieldCall
    /\ fetches' = NoFetches
    /\ bestYields' = NoBestYields
    /\ UNCHANGED <<gatewayVars, priceVars, portfolioVars>>

NextYield ==
    \/ GetBestYields
    \/ KaminoResponds
    \/ KaminoFails
    \/ KaminoTimesOut
    \/ DriftSubscribes
    \/ DriftThrows
    \/ AllSettled
    \/ YieldReset

SpecYield == Init /\ [][NextYield]_vars

\* The same with the progress the code guarantees: the Kamino request is
\* given a timeout, and a resolved Promise.allSettled resumes the caller.
\* Nothing in the code bounds driftClient.subscribe().
SpecYieldFair ==
    /\ SpecYield
    /\ WF_vars(KaminoTimesOut)
    /\ WF_vars(AllSettled)

----------------------------------------------------------------------------
(* calculateUsdValue on its own.                                           *)

\* The amounts of the model.
Amounts == {Q(0, 1), Q(2, 1), Q(1, 2)}

\* The answers of the price feed of the model.
FeedAnswers ==
    {Updates("empty", 0, 0), Updates("malformed", 0, 0),
     Updates("price", 9850, -2), Updates("price", 0, -8),
     Updates("price", 15, -6), Updates("price", 42, 3)}

\* calculateUsdValue(symbol, amount, useMock) up to its return or, when
\* getPrice asks the feed, up to that await.
CalculateUsdValue ==
    /\ pc = "idle"
    /\ \E symbol \in Symbols, amount \in Amounts, useMock \in BOOLEAN :
          /\ priceCall' = [symbol |-> symbol, amount |-> amount,
                           useMock |-> useMock]
          /\ IF useMock
             THEN /\ usdValue' = UsdValue(symbol, amount, getMockPrice(symbol))
                  /\ pc' = "priced"
             ELSE IF getFeedId(symbol) = ""
             THEN /\ usdValue' = UsdValue(symbol, amount,
                                          getPrice(symbol, NoUpdates))
                  /\ pc' = "priced"
             ELSE /\ usdValue' = NotANumber
                  /\ pc' = "quoting"
    /\ UNCHANGED <<updates, pricesCall, prices, gatewayVars, yieldVars,
                   portfolioVars>>

\* getLatestPriceUpdates settled with u and calculateUsdValue returns.
FeedSettles(u) ==
    /\ pc = "quoting"
    /\ updates' = u
    /\ usdValue' = UsdValue(priceCall.symbol, priceCall.amount,
                            getPrice(priceCall.symbol, u))
    /\ pc' = "priced"
    /\ UNCHANGED <<priceCall, pricesCall, prices, gatewayVars, yieldVars,
                   portfolioVars>>

\* The price feed answers.
FeedResponds == \E u \in FeedAnswers : FeedSettles(u)

\* The request to the price feed rejects.
FeedThrows == FeedSettles(Updates("throws", 0, 0))

\* The caller has the value; nothing of the call is kept.
PriceReset ==
    /\ pc = "priced"
    /\ pc' = "idle"
    /\ priceCall' = NoPriceCall
    /\ updates' = NoUpdates
    /\ usdValue' = NotANumber
    /\ UNCHANGED <<pricesCall, prices, gatewayVars, yieldVars, portfolioVars>>

NextPrice ==
    \/ CalculateUsdValue
    \/ FeedResponds
    \/ FeedThrows
    \/ PriceReset

SpecPrice == Init /\ [][NextPrice]_vars

----------------------------------------------------------------------------
(* getPrices on its own.                                                   *)

\* The longest list of symbols asked for.
MaxSymbols == 3

SymbolLists == SeqsUpTo({"SOL", "USDC", "BTC", "sol", "XYZ"}, MaxSymbols)

\* What the feed with the given identifier quotes; one feed of the model
\* sends an entry without a price member.
FeedQuote(feedId) ==
    CASE feedId = "SOL_USD"  -> Updates("price", 9850, -2)
      [] feedId = "USDC_USD" -> Updates("price", 100000000, -8)
      [] OTHER               -> Updates("malformed", 0, 0)

\* The parsed list Hermes sends for feedIds: one entry per identifier, in
\* the order of the request.
ParsedFor(feedIds) == [i \in 1..Len(feedIds) |-> FeedQuote(feedIds[i])]

\* getPrices(symbols) up to its return or, when some symbol has a feed,
\* up to the await of getLatestPriceUpdates.
GetPrices ==
    /\ pc = "idle"
    /\ \E symbols \in SymbolLists :
          /\ pricesCall' = symbols
          /\ pc' = IF Len(FeedIdsOf(symbols, 1)) = 0
                   THEN "pricesReturned" ELSE "pricesAsked"
    /\ prices' = <<>>
    /\ UNCHANGED <<priceCall, updates, usdValue, gatewayVars, yieldVars,
                   portfolioVars>>

\* getLatestPriceUpdates settled and getPrices returns its map.
PricesSettle(answer) ==
    /\ pc = "pricesAsked"
    /\ prices' = getPrices(pricesCall, answer)
    /\ pc' = "pricesReturned"
    /\ UNCHANGED <<pricesCall, priceCall, updates, usdValue, gatewayVars,
                   yieldVars, portfolioVars>>

\* The price feed answers with a parsed list or without one.
PricesRespond ==
    \/ PricesSettle([kind |-> "parsed",
                     parsed |-> ParsedFor(FeedIdsOf(pricesCall, 1))])
    \/ PricesSettle([kind |-> "empty", parsed |-> <<>>])

\* The request to the price feed rejects; the catch logs it.
PricesThrow == PricesSettle([kind |-> "throws", parsed |-> <<>>])

\* The caller has the map; nothing of the call is kept.
PricesReset ==
    /\ pc = "pricesReturned"
    /\ pc' = "idle"
    /\ pricesCall' = <<>>
    /\ prices' = <<>>
    /\ UNCHANGED <<priceCall, updates, usdValue, gatewayVars, yieldVars,
                   portfolioVars>>

NextPrices ==
    \/ GetPrices
    \/ PricesRespond
    \/ PricesThrow
    \/ PricesReset

SpecPrices == Init /\ [][NextPrices]_vars

----------------------------------------------------------------------------
(* getPortfolioAnalytics on its own.                                       *)

\* The wallets of the model; the second one is not an address.
PortfolioWallets == {"HolderWallet", "not-an-address"}

\* The balances connection.getBalance returns, in lamports.
LamportBalances == {0, 250000000, 1500000000}

\* The token accounts getParsedTokenAccountsByOwner returns.
TokenAccounts ==
    {TokenAccount(m, a) :
        m \in Mints,
        a \in {Q(0, 1), Q(1, 2), Q(1, 1), Q(3, 2), Q(2, 1), Q(7, 2)}}

\* The longest list of token accounts.
MaxTokenAccounts == 2

TokenAccountAnswers ==
    {[kind |-> "value", value |-> v] :
        v \in SeqsUpTo(TokenAccounts, MaxTokenAccounts)}

\* getPortfolioAnalytics(connection, walletAddress, useMock) up to the
\* await of getBalance; new PublicKey throws into the catch.
GetPortfolioAnalytics ==
    /\ pc = "idle"
    /\ \E wallet \in PortfolioWallets, useMock \in BOOLEAN :
          /\ portfolioCall' = [wallet |-> wallet, useMock |-> useMock,
                               lamports |-> 0]
          /\ IF IsPublicKey(wallet)
             THEN /\ analytics' = NoAnalytics
                  /\ pc' = "balance"
             ELSE /\ analytics' = FallbackAnalytics(wallet)
                  /\ pc' = "analysed"
    /\ UNCHANGED <<riskScore, gatewayVars, yieldVars, priceVars>>

\* connection.getBalance returns: with useMock the snapshot is built from
\* the static lists, else the token accounts are asked for.
BalanceReturns ==
    /\ pc = "balance"
    /\ \E lamports \in LamportBalances :
          /\ portfolioCall' = [portfolioCall EXCEPT !.lamports = lamports]
          /\ IF portfolioCall.useMock
             THEN /\ analytics' =
                        ComputedAnalytics(portfolioCall.wallet, lamports,
                                          getMockTokenBalances,
                                          getMockDefiPositions)
                  /\ pc' = "analysed"
             ELSE /\ analytics' = NoAnalytics
                  /\ pc' = "tokens"
    /\ UNCHANGED <<riskScore, gatewayVars, yieldVars, priceVars>>

\* connection.getBalance rejects: the catch returns the fixed snapshot.
BalanceThrows ==
    /\ pc = "balance"
    /\ analytics' = FallbackAnalytics(portfolioCall.wallet)
    /\ pc' = "analysed"
    /\ UNCHANGED <<portfolioCall, riskScore, gatewayVars, yieldVars, priceVars>>

\* getTokenBalances returned for the answer of the token account read.
TokenBalancesReturn(answer) ==
    /\ pc = "tokens"
    /\ analytics' = ComputedAnalytics(portfolioCall.wallet,
                                      portfolioCall.lamports,
                                      getTokenBalances(answer),
                                      getMarginfiPositions)
    /\ pc' = "analysed"
    /\ UNCHANGED <<portfolioCall, riskScore, gatewayVars, yieldVars, priceVars>>

\* getParsedTokenAccountsByOwner returns the accounts of the wallet.
TokenAccountsReturn ==
    \E answer \in TokenAccountAnswers : TokenBalancesReturn(answer)

\* getParsedTokenAccountsByOwner rejects; getTokenBalances returns [].
TokenAccountsThrow == TokenBalancesReturn([kind |-> "throws", value |-> <<>>])

\* The caller has the snapshot; nothing of the call is kept.
PortfolioReset ==
    /\ pc = "analysed"
    /\ pc' = "idle"
    /\ portfolioCall' = NoPortfolioCall
    /\ analytics' = NoAnalytics
    /\ UNCHANGED <<riskScore, gatewayVars, yieldVars, priceVars>>

\* calculateRiskScore(connection, walletAddress, useMock) after its await
\* of getPortfolioAnalytics, called with the same arguments.
RiskScoreReturns ==
    /\ pc = "analysed"
    /\ riskScore' = calculateRiskScore(analytics)
    /\ pc' = "scored"
    /\ UNCHANGED <<portfolioCall, analytics, gatewayVars, yieldVars,
                   priceVars>>

\* The caller has the score; nothing of the call is kept.
RiskReset ==
    /\ pc = "scored"
    /\ pc' = "idle"
    /\ portfolioCall' = NoPortfolioCall
    /\ analytics' = NoAnalytics
    /\ riskScore' = NoRiskScore
    /\ UNCHANGED <<gatewayVars, yieldVars, priceVars>>

NextPortfolio ==
    \/ GetPortfolioAnalytics
    \/ BalanceReturns
    \/ BalanceThrows
    \/ TokenAccountsReturn
    \/ TokenAccountsThrow
    \/ PortfolioReset
    \/ RiskScoreReturns
    \/ RiskReset

SpecPortfolio == Init /\ [][NextPortfolio]_vars

----------------------------------------------------------------------------
(* The middleware over proofs that use every alias key: requests of one    *)
(* route whose header is an object with members under the keys of          *)
(* AliasKeys.                                                              *)

\* The members under the keys of each proof field; of each list the later
\* ones show a first key that is absent, 0 or "" next to a later alias.
AmountAliases ==
    {[amount |-> Undef, value |-> Undef],
     [amount |-> Num(50000), value |-> Undef],
     [amount |-> Undef, value |-> Num(50000)],
     [amount |-> Num(0), value |-> Num(50000)],
     [amount |-> Str(""), value |-> Num(100000)]}
RecipientAliases ==
    {[recipient |-> Str(RECIPIENT_WALLET), to |-> Undef, payee |-> Undef],
     [recipient |-> Undef, to |-> Undef, payee |-> Str(RECIPIENT_WALLET)],
     [recipient |-> Str(""), to |-> Str(RECIPIENT_WALLET), payee |-> Undef],
     [recipient |-> Str("PayerWallet"), to |-> Str(RECIPIENT_WALLET),
      payee |-> Undef]}
SignatureAliases ==
    {[signature |-> Str("SigA"), txSignature |-> Undef, tx |-> Undef],
     [signature |-> Undef, txSignature |-> Undef, tx |-> Str("SigB")],
     [signature |-> Str(""), txSignature |-> Str("SigB"), tx |-> Str("SigA")]}
TokenAliases ==
    {[token |-> Undef, mint |-> Undef],
     [token |-> Str(USDC_MINT), mint |-> Undef],
     [token |-> Str(""), mint |-> Str("OtherMint")]}
SenderAliases ==
    {[sender |-> Undef, from |-> Undef, payer |-> Undef],
     [sender |-> Str("PayerWallet"), from |-> Undef, payer |-> Undef],
     [sender |-> Str(""), from |-> Str("HolderWallet"),
      payer |-> Str("PayerWallet")]}
TimestampValues == {Undef, Num(0), Num(5)}

\* The header object with the given members.
AliasObject(a, t, sd, rc, sg, ts) ==
    Header("object",
           [k \in AliasKeys |->
               IF k \in DOMAIN a THEN a[k]
               ELSE IF k \in DOMAIN t THEN t[k]
               ELSE IF k \in DOMAIN sd THEN sd[k]
               ELSE IF k \in DOMAIN rc THEN rc[k]
               ELSE IF k \in DOMAIN sg THEN sg[k]
               ELSE ts])

ProofRequests ==
    {Request("/best-yield", Undef, AliasObject(a, t, sd, rc, sg, ts), Undef,
             Undef, 1) :
        a \in AmountAliases, t \in TokenAliases, sd \in SenderAliases,
        rc \in RecipientAliases, sg \in SignatureAliases,
        ts \in TimestampValues}

\* A request with a proof object arrives at /best-yield.
HandleProof ==
    /\ pc = "idle"
    /\ \E r \in ProofRequests : Serve(r)

NextProof ==
    \/ HandleProof
    \/ GetTransactionSettles
    \/ GetTransactionThrows
    \/ HandlerReturns
    \/ Finish
    \/ LedgerChanges

SpecProof == Init /\ [][NextProof]_vars

----------------------------------------------------------------------------
(* Properties of the payment middleware, checked under Spec.               *)

\* The request in flight does not carry mock=true.
Unbypassed == pc # "idle" /\ req.mock # Str("true")

\* The proof parseX402Header makes of the header of the request in flight.
Payment == parseX402Header(req.header, req.now)

\* The amount the route of the request in flight requires.
Required == RequiredAmount(req.route)

\* The request in flight carries a header that parses to a proof.
Parsed == Unbypassed /\ ~HeaderMissing(req.header) /\ ~Payment.isNull

\* The middleware has finished with the request in flight.
Decided == pc \in {"computing", "done"}

\* v >= n
AtLeast(v, n) == ToNumber(v).t = "number" /\ ToNumber(v).n >= n

\* The ledger holds, for the signature of the proof, a transaction that
\* verifyPayment accepts for the requirement of the route.
LedgerAccepts ==
    /\ Payment.signature.t = "string"
    /\ Payment.signature.s \in DOMAIN ledger
    /\ verifyPayment(ledger[Payment.signature.s], Required, RECIPIENT_WALLET)

\* C1 (as claimed): a request with a parsed proof and no bypass is
\* authorized exactly when the amount is at least the required one, the
\* recipient is the configured one and verifyPayment returned true; when
\* one clause alone fails, the response names that clause.
C1_AuthorizedIffAllClausesHold ==
    (Decided /\ Parsed) =>
        LET amountOk == AtLeast(Payment.amount, Required)
            recipientOk == Payment.recipient = Str(RECIPIENT_WALLET)
        IN  /\ nextCalled <=> (amountOk /\ recipientOk /\ isValid = "true")
            /\ (~amountOk /\ recipientOk /\ LedgerAccepts)
                  => res.error = "Insufficient Payment"
            /\ (amountOk /\ ~recipientOk /\ LedgerAccepts)
                  => res.error = "Invalid Recipient"
            /\ (amountOk /\ recipientOk /\ isValid = "false")
                  => res.error = "Payment Verification Failed"

\* C2: with mock=true the middleware calls next whatever the header is: it
\* sends no response of its own and never reads the ledger.
C2_MockBypassesPayment ==
    (pc # "idle" /\ req.mock = Str("true")) =>
        /\ nextCalled
        /\ pc \in {"computing", "done"}
        /\ res.by # "requirePayment"
        /\ ledgerReads = 0
        /\ call = NoCall
        /\ isValid = "none"

\* C2 witness: a bypassed request whose header names the wrong recipient
\* and too small an amount got the handler's 200.
C2_Witness ==
    /\ pc = "done"
    /\ req.mock = Str("true")
    /\ req.header.kind = "object"
    /\ Payment.recipient = Str("PayerWallet")
    /\ Payment.amount = Num(49999)
    /\ nextCalled
    /\ res.status = 200

\* C3: a request without the payment header and without bypass gets 402
\* with the payment requirement of its route; the handler does not run and
\* the ledger is not read.
C3_MissingProofGets402 ==
    (Unbypassed /\ req.header.kind = "absent") =>
        /\ pc = "done"
        /\ res.status = 402
        /\ res.error = "Payment Required"
        /\ "payment" \in res.keys
        /\ res.payment.amount = Required
        /\ res.payment.token = USDC_MINT
        /\ res.payment.recipient = RECIPIENT_WALLET
        /\ res.payment.network = "solana-devnet"
        /\ ~nextCalled
        /\ ledgerReads = 0

\* C3 witness: /risk-score without a header was answered 402 asking for
\* the price of that route.
C3_Witness ==
    /\ pc = "done"
    /\ req.route = "/risk-score/:wallet"
    /\ req.mock = Undef
    /\ req.header.kind = "absent"
    /\ res.status = 402
    /\ res.payment.amount = PRICES.RISK

\* C4 (as claimed): a header value that is not a JSON object makes
\* parseX402Header return null, and the request is rejected with 400
\* Invalid Payment Header before any other check.
C4_NonObjectHeaderIsMalformed ==
    (Unbypassed /\ req.header.kind \in {"text", "null", "primitive", "array"}) =>
        /\ Payment.isNull
        /\ pc = "done"
        /\ res.status = 400
        /\ res.error = "Invalid Payment Header"
        /\ ~nextCalled
        /\ ledgerReads = 0

\* C5: a parsed proof whose amount is a number below the required amount
\* gets 402 Insufficient Payment, whatever its recipient and signature; the
\* ledger is not read.
C5_UnderpaidGets402 ==
    (Parsed /\ Payment.amount.t = "number" /\ Payment.amount.n < Required) =>
        /\ pc = "done"
        /\ res.status = 402
        /\ res.error = "Insufficient Payment"
        /\ ~nextCalled
        /\ ledgerReads = 0
        /\ call = NoCall

\* C5 witness: a proof both underpaid and addressed to another recipient
\* was answered 402.
C5_Witness ==
    /\ pc = "done"
    /\ Parsed
    /\ Payment.amount = Num(49999)
    /\ Required = PRICES.BEST_YIELD
    /\ Payment.recipient = Str("PayerWallet")
    /\ res.status = 402
    /\ res.error = "Insufficient Payment"

\* C6: a parsed proof whose amount is a sufficient number and whose
\* recipient is not the configured wallet gets 400 Invalid Recipient and
\* verifyPayment is not called.
C6_WrongRecipientGets400 ==
    (Parsed /\ Payment.amount.t = "number" /\ Payment.amount.n >= Required
            /\ Payment.recipient # Str(RECIPIENT_WALLET)) =>
        /\ pc = "done"
        /\ res.status = 400
        /\ res.error = "Invalid Recipient"
        /\ ~nextCalled
        /\ ledgerReads = 0
        /\ call = NoCall
        /\ isValid = "none"

\* C6 witness: a fully paid proof addressed to the payer's own wallet, with
\* the signature of a transfer the ledger holds, was answered 400.
C6_Witness ==
    /\ pc = "done"
    /\ Parsed
    /\ Payment.amount = Num(100000)
    /\ Payment.recipient = Str("PayerWallet")
    /\ Payment.signature = Str("SigA")
    /\ ledger["SigA"] = TxTransfer(FALSE, "50000")
    /\ res.error = "Invalid Recipient"

\* C7: a proof that passes the amount and recipient checks is verified
\* once, with its signature, the required amount of the route and the
\* configured recipient; when getTransaction throws or verifyPayment
\* returns false the response is 402 Payment Verification Failed and next
\* is not called; when verifyPayment returns true next is called.
C7_VerifiedAgainstRequirement ==
    /\ (Parsed /\ Payment.amount.t = "number" /\ Payment.amount.n >= Required
               /\ Payment.recipient = Str(RECIPIENT_WALLET)) =>
          /\ ledgerReads = 1
          /\ call = [signature |-> Payment.signature,
                     expectedAmount |-> Required,
                     expectedRecipient |-> RECIPIENT_WALLET]
    /\ (pc # "idle" /\ isValid = "false") =>
          /\ pc = "done"
          /\ ~nextCalled
          /\ res.status = 402
          /\ res.error = "Payment Verification Failed"
    /\ (pc # "idle" /\ tx.status = "rpcError") => isValid = "false"
    /\ (pc # "idle" /\ isValid = "true") => nextCalled
    /\ res.status # 500

\* C7 witness: an overpaying proof was verified against the price of the
\* route, the lookup threw and the request was answered 402.
C7_Witness ==
    /\ pc = "done"
    /\ Parsed
    /\ Payment.amount = Num(100000)
    /\ call.expectedAmount = PRICES.BEST_YIELD
    /\ tx.status = "rpcError"
    /\ isValid = "false"
    /\ res.status = 402

\* C8 (as claimed): every 402 the middleware sends has a body with error,
\* message and the payment requirement of the route.
C8_Every402CarriesRequirement ==
    (pc # "idle" /\ res.by = "requirePayment" /\ res.status = 402) =>
        /\ {"error", "message", "payment"} \subseteq res.keys
        /\ res.payment = PaymentRequirement(Required)

\* The request in flight is for a wallet route and its wallet is not an
\* address.
InvalidWalletRequest ==
    /\ pc # "idle"
    /\ req.route \in {"/portfolio-analytics/:wallet", "/risk-score/:wallet"}
    /\ req.wallet.s \notin ValidAddresses

\* C9 (as claimed): on the two wallet routes a wallet that is not an
\* address is answered 400, whatever the payment proof is.
C9_InvalidWalletAlways400 ==
    (InvalidWalletRequest /\ pc = "done") => res.status = 400

\* C9 (amended): on the two wallet routes a wallet that is not an address
\* is answered 400 Invalid Wallet Address exactly when the middleware
\* called next (verified payment or bypass), and then nothing is computed;
\* otherwise the response is the middleware's own: 402 for an absent,
\* insufficient or unverified proof, 400 for a malformed one or a wrong
\* recipient.
C9_InvalidWallet400OnceAuthorized ==
    InvalidWalletRequest =>
        /\ pc # "computing"
        /\ nextCalled =>
              /\ pc = "done"
              /\ res.status = 400
              /\ res.error = "Invalid Wallet Address"
              /\ res.by = req.route
        /\ (pc = "done" /\ ~nextCalled) =>
              /\ res.by = "requirePayment"
              /\ res.status = 402 <=>
                    \/ HeaderMissing(req.header)
                    \/ (~Payment.isNull
                        /\ LessThan(Payment.amount, Num(Required)))
                    \/ isValid = "false"
              /\ res.status \in {400, 402}

\* C9 witness: a verified payment for an invalid wallet was answered 400
\* by the handler.
C9_Witness ==
    /\ InvalidWalletRequest
    /\ pc = "done"
    /\ req.mock = Undef
    /\ isValid = "true"
    /\ res.error = "Invalid Wallet Address"

\* C13: no proof is consumed.  A request whose proof reached verification
\* with a signature that already authorized a request, and whose lookup was
\* answered by the unchanged chain, is authorized again, whatever route it
\* is for; and between requests nothing of a request is left in the server.
C13_ReplayedProofAuthorizedAgain ==
    /\ (pc \in {"computing", "done"} /\ isValid # "none"
           /\ tx.status # "rpcError" /\ call.signature.s \in authorizedRefs) =>
          /\ isValid = "true"
          /\ nextCalled
          /\ res.by # "requirePayment"
    /\ pc = "idle" =>
          /\ req = NoRequest
          /\ res = NoResponse
          /\ ~nextCalled
          /\ call = NoCall
          /\ ledgerReads = 0
          /\ isValid = "none"
          /\ tx = TxNone

\* C13 witness: the signature of a transfer of 50000 units, which already
\* authorized a request, authorized a request of the dearest route again.
C13_Witness ==
    /\ pc = "done"
    /\ req.mock = Undef
    /\ req.route = "/api/defi-intel"
    /\ Payment.amount = Num(100000)
    /\ call.signature = Str("SigA")
    /\ "SigA" \in authorizedRefs
    /\ ledger["SigA"] = TxTransfer(FALSE, "50000")
    /\ isValid = "true"
    /\ nextCalled
    /\ res.status = 200

----------------------------------------------------------------------------
(* Properties of verifyPayment, checked under SpecVerify.                  *)

\* C10: verifyPayment returns false when the transaction is not found
\* (null, or without metadata) or its execution failed, whatever balance
\* records it carries.
C10_MissingOrFailedTxRejected ==
    (pc = "verified"
        /\ (tx.status \in {"null", "noMeta"} \/ (tx.status = "found" /\ tx.err)))
    => isValid = "false"

\* C10 witness: a failed transaction whose balance records show the exact
\* expected amount arriving at the recipient's token account was rejected.
C10_Witness ==
    /\ pc = "verified"
    /\ tx.status = "found"
    /\ tx.err
    /\ tx.keysResolved
    /\ tx.accountKeys = <<RecipientAta>>
    /\ tx.postTokenBalances = <<Balance(0, USDC_MINT, "50000")>>
    /\ tx.preTokenBalances = <<>>
    /\ call.expectedAmount = PRICES.BEST_YIELD
    /\ call.expectedRecipient = RECIPIENT_WALLET
    /\ isValid = "false"

\* verifyPayment was called on a transaction that was found and succeeded.
VerifiedSuccessfulTx == pc = "verified" /\ tx.status = "found" /\ ~tx.err

\* The post-transfer balance records of the answered transaction that are
\* of the configured asset and of the token account of the recipient the
\* call names.
RecipientRecords ==
    {i \in 1..Len(tx.postTokenBalances) :
        /\ tx.postTokenBalances[i].mint = USDC_MINT
        /\ tx.postTokenBalances[i].accountIndex + 1 <= Len(tx.accountKeys)
        /\ tx.accountKeys[tx.postTokenBalances[i].accountIndex + 1]
              = getAssociatedTokenAddress(USDC_MINT, call.expectedRecipient)}

\* The post amount of record i minus the matching pre amount (0 when there
\* is no pre record of that account).
Delta(i) ==
    ToNumber(Str(tx.postTokenBalances[i].amount)).n
    - PreAmount(tx.preTokenBalances, tx.postTokenBalances[i].accountIndex)

\* The answered transaction has a record of the configured asset.
HasAssetRecord ==
    \E i \in 1..Len(tx.postTokenBalances) :
        tx.postTokenBalances[i].mint = USDC_MINT

\* C11 (as claimed): for a found, successful transaction with a record of
\* the recipient's token account and the configured asset, verifyPayment
\* returns true exactly when the delta of such a record is within the
\* tolerance of the expected amount.
C11_AcceptedIffWithinTolerance ==
    (VerifiedSuccessfulTx /\ tx.keysResolved
        /\ call.expectedRecipient = RECIPIENT_WALLET
        /\ RecipientRecords # {}) =>
        (isValid = "true" <=>
            \E i \in RecipientRecords :
                Abs(Delta(i) - call.expectedAmount) < TOLERANCE)

----------------------------------------------------------------------------
(* Properties of getBestYields, checked under SpecYield.                   *)

Range(s) == {s[i] : i \in 1..Len(s)}

\* getBestYields returned from a call without useMock.
ReturnedLive == pc = "returned" /\ ~yieldCall.useMock

\* The sequence the returned opportunities are taken from: the static
\* tables with useMock, else what the three fetches were fulfilled with,
\* Kamino first, Marginfi second, Drift third.
Contributions ==
    IF yieldCall.useMock
    THEN getMockKaminoYields \o getMockMarginfiYields \o getMockDriftYields
    ELSE fetches.kamino.value \o fetches.marginfi.value \o fetches.drift.value

Top == bestYields.topOpportunities

\* The place of opportunity e in Contributions.
Pos(e) == CHOOSE i \in 1..Len(Contributions) : Contributions[i] = e

\* The provider's request failed or timed out.
Errored(p) == fetches[p].outcome \in {"error", "timeout"}

\* C14: the result is the first 10 (all, if fewer) of the merged sequence
\* ordered by APY descending with equal APYs in merge order; whatever is
\* left out has an APY no greater than any returned one; with useMock it
\* is one fixed sequence of the static tables, labelled mock, and no fetch
\* is issued.
C14_TopTenStableByApy ==
    pc = "returned" =>
        /\ Len(Top) = IF Len(Contributions) < 10 THEN Len(Contributions) ELSE 10
        /\ Range(Top) \subseteq Range(Contributions)
        /\ \A i \in 1..Len(Top), j \in 1..Len(Top) :
              i < j =>
                 \/ Top[i].apy > Top[j].apy
                 \/ (Top[i].apy = Top[j].apy /\ Pos(Top[i]) < Pos(Top[j]))
        /\ \A e \in Range(Contributions) \ Range(Top) :
              \A i \in 1..Len(Top) : e.apy <= Top[i].apy
        /\ yieldCall.useMock =>
              /\ Top = <<getMockKaminoYields[3], getMockKaminoYields[2],
                         getMockDriftYields[2], getMockMarginfiYields[2],
                         getMockMarginfiYields[3], getMockKaminoYields[1],
                         getMockMarginfiYields[1], getMockDriftYields[1],
                         getMockDriftYields[3]>>
              /\ bestYields.source = "mock"
              /\ fetches = NoFetches

\* C14 witness: more than ten opportunities were merged, and a live Kamino
\* opportunity was returned ahead of the static Marginfi one of the same
\* APY.
C14_Witness ==
    /\ ReturnedLive
    /\ Len(Contributions) > 10
    /\ ~fetches.kamino.fallback
    /\ \E i \in 1..Len(Top), j \in 1..Len(Top) :
          /\ i < j
          /\ Top[i].protocol = "Kamino"
          /\ Top[j] = getMockMarginfiYields[2]
          /\ Top[i].apy = Top[j].apy

\* C15 (as claimed): without useMock, whatever fetches fail, the result is
\* not empty and contains every opportunity of every provider: those it
\* delivered, or its static set when it failed.
C15_ResultContainsEveryContribution ==
    ReturnedLive =>
        /\ Len(Top) > 0
        /\ Errored("kamino") => fetches.kamino.value = getMockKaminoYields
        /\ Errored("drift") => fetches.drift.value = getMockDriftYields
        /\ Range(Contributions) \subseteq Range(Top)

\* C15 (amended): without useMock, whatever fetches fail, the result is
\* not empty; a provider that failed contributes its static set, one that
\* answered the opportunities of its answer (Kamino its static set when
\* its answer has no strategy of positive APY), Marginfi always its static
\* set; and an opportunity contributed is missing from the result only
\* when ten opportunities of at least its APY are returned.
C15_ContributionsSurviveFailures ==
    ReturnedLive =>
        /\ Len(Top) > 0
        /\ bestYields.source # "none"
        /\ Errored("kamino") => fetches.kamino.value = getMockKaminoYields
        /\ Errored("drift") => fetches.drift.value = getMockDriftYields
        /\ fetches.marginfi.value = getMockMarginfiYields
        /\ fetches.kamino.outcome = "ok" =>
              \/ /\ ~fetches.kamino.fallback
                 /\ fetches.kamino.value # <<>>
                 /\ \A e \in Range(fetches.kamino.value) :
                       e.protocol = "Kamino" /\ e.apy > 0
              \/ /\ fetches.kamino.fallback
                 /\ fetches.kamino.value = getMockKaminoYields
                 /\ \A i \in 1..Len(fetches.kamino.data) :
                       i <= KAMINO_STRATEGIES =>
                          StrategyApy(fetches.kamino.data[i]) <= 0
        /\ fetches.drift.outcome = "ok" =>
              /\ ~fetches.drift.fallback
              /\ Len(fetches.drift.value) =
                    Cardinality({i \in 1..Len(fetches.drift.data) :
                                    /\ i <= DRIFT_MARKETS
                                    /\ fetches.drift.data[i].depositBalance > 0})
        /\ \A e \in Range(Contributions) \ Range(Top) :
              /\ Len(Top) = TOP_OPPORTUNITIES
              /\ \A i \in 1..Len(Top) : e.apy <= Top[i].apy

\* C15 witness: Kamino timed out and Drift threw, and the result holds the
\* nine opportunities of the three static sets.
C15_Witness ==
    /\ ReturnedLive
    /\ fetches.kamino.outcome = "timeout"
    /\ fetches.drift.outcome = "error"
    /\ Len(Top) = 9
    /\ Range(Top) = Range(getMockKaminoYields) \cup Range(getMockMarginfiYields)
                    \cup Range(getMockDriftYields)

\* C16 (as claimed): the source is live when some provider contributed a
\* result that is not its static table, and mock otherwise.
C16_SourceLiveIffSomeProviderLive ==
    pc = "returned" =>
        (bestYields.source = "live" <=>
            /\ ~yieldCall.useMock
            /\ \E p \in DOMAIN fetches : ~fetches[p].fallback)

\* C17 (as claimed): a call of getBestYields that started its fetches
\* returns.
C17_FetchingLeadsToReturn == (pc = "fetching") ~> (pc = "returned")

\* C18 (as claimed): a Kamino strategy turned into an opportunity is low
\* from a TVL of 1,000,000 on, medium from 100,000 on and high below.
C18_KaminoRiskByInclusiveThresholds ==
    (pc \in {"fetching", "returned"} /\ ~fetches.kamino.fallback) =>
        \A e \in Range(fetches.kamino.value) :
            e.riskLevel = IF e.tvl >= 1000000 THEN "low"
                          ELSE IF e.tvl >= 100000 THEN "medium"
                          ELSE "high"

----------------------------------------------------------------------------
(* Properties of the price service and of the portfolio snapshot, checked  *)
(* under SpecPrice and SpecPortfolio.                                      *)

\* The live lookup of the call in progress yielded a price.
LivePriceFound ==
    /\ ~priceCall.useMock
    /\ getFeedId(priceCall.symbol) # ""
    /\ updates.kind = "price"

\* C19 (as claimed): calculateUsdValue returns a number for every symbol:
\* the amount times the live price when the live lookup yielded one, else
\* the amount times the reference price of a symbol of the price table or
\* times 1.0 for any other symbol.
C19_UsdValueNeverWithheld ==
    pc = "priced" =>
        /\ ~usdValue.nan
        /\ usdValue =
              IF LivePriceFound
              THEN Times(priceCall.amount,
                         Scaled(updates.mantissa, updates.expo))
              ELSE Times(priceCall.amount,
                         IF priceCall.symbol \in DOMAIN mockPrices
                         THEN mockPrices[priceCall.symbol]
                         ELSE Q(1, 1))

\* C20 (as claimed): in every snapshot getPortfolioAnalytics returns, the
\* total is the value of the SOL balance plus the values of the token
\* balances plus the values of the positions.
C20_TotalIsSumOfParts ==
    pc = "analysed" =>
        analytics.totalUsdValue =
            Plus(Plus(analytics.solUsdValue,
                      SumUsdValue(analytics.tokenBalances, 1, Q(0, 1))),
                 SumUsdValue(analytics.defiPositions, 1, Q(0, 1)))

----------------------------------------------------------------------------
(* Properties of the risk scorer, checked under SpecPortfolio.             *)

\* A number that is neither NaN nor infinite.
Finite(x) == ~x.nan /\ x.d # 0

RiskLevels == {"low", "medium", "high", "critical"}

ConcentrationWarning == "High concentration risk: Over 70% in single asset"

\* The share of the total the i-th token balance of the snapshot is worth.
Share(i) == Over(analytics.tokenBalances[i].usdValue, analytics.totalUsdValue)

\* C21: when the snapshot scored has a total of 0, concentrationRisk and
\* liquidationRisk are exactly 0, and overallScore is a finite number with
\* one of the four levels.
C21_ZeroTotalGivesZeroRatios ==
    (pc = "scored" /\ analytics.totalUsdValue = Q(0, 1)) =>
        /\ riskScore.concentrationRisk = Q(0, 1)
        /\ riskScore.liquidationRisk = Q(0, 1)
        /\ Finite(riskScore.overallScore)
        /\ riskScore.riskLevel \in RiskLevels

\* C21 witness: a live wallet holding nothing was scored.
C21_Witness ==
    /\ pc = "scored"
    /\ analytics.path = "computed"
    /\ analytics.totalUsdValue = Q(0, 1)
    /\ riskScore.overallScore = Q(30, 1)

\* C22: concentrationRisk is 100 times the largest share a token balance
\* has of the total, 0 without token balances, and the concentration
\* warning is there exactly when that share is above 0.70.
C22_ConcentrationIsLargestShare ==
    pc = "scored" =>
        LET n == Len(analytics.tokenBalances)
        IN  /\ n = 0 =>
                  /\ riskScore.concentrationRisk = Q(0, 1)
                  /\ \A w \in 1..Len(riskScore.warnings) :
                        riskScore.warnings[w] # ConcentrationWarning
            /\ n > 0 =>
                  \E i \in 1..n :
                     /\ \A j \in 1..n : ~Less(Share(i), Share(j))
                     /\ riskScore.concentrationRisk =
                            Times(Q(100, 1), Share(i))
                     /\ Greater(Share(i), Q(7, 10)) <=>
                            \E w \in 1..Len(riskScore.warnings) :
                               riskScore.warnings[w] = ConcentrationWarning

\* C22 witness: one token balance is worth 80% of the total; the score
\* has concentrationRisk 80 and the warning.
C22_Witness ==
    /\ pc = "scored"
    /\ \E i \in 1..Len(analytics.tokenBalances) : Share(i) = Q(4, 5)
    /\ riskScore.concentrationRisk = Q(80, 1)
    /\ riskScore.warnings = <<ConcentrationWarning>>

\* C23: overallScore is within 0..100 and riskLevel follows from it: low
\* below 25, medium from 25 and below 50, high from 50 and below 75,
\* critical from 75.
C23_LevelFollowsScore ==
    pc = "scored" =>
        LET score == riskScore.overallScore
        IN  /\ Finite(score)
            /\ ~Less(score, Q(0, 1))
            /\ ~Greater(score, Q(100, 1))
            /\ riskScore.riskLevel =
                  CASE Less(score, Q(25, 1)) -> "low"
                    [] ~Less(score, Q(25, 1)) /\ Less(score, Q(50, 1)) ->
                          "medium"
                    [] ~Less(score, Q(50, 1)) /\ Less(score, Q(75, 1)) ->
                          "high"
                    [] OTHER -> "critical"

\* C23 witness: a score of exactly 50 has the level high.
C23_Witness ==
    /\ pc = "scored"
    /\ riskScore.overallScore = Q(50, 1)
    /\ riskScore.riskLevel = "high"

----------------------------------------------------------------------------
(* Properties of the order of events of a request, checked under Spec.     *)

\* The middleware parsed a proof and its amount and recipient checks let
\* it through.
PassedChecks ==
    /\ Unbypassed
    /\ ~parsedPayment.isNull
    /\ ~LessThan(parsedPayment.amount, Num(Required))
    /\ StrictEquals(parsedPayment.recipient, Str(RECIPIENT_WALLET))

\* C25: a request makes one getTransaction call when its proof got through
\* the parse, amount and recipient checks of the middleware and none
\* otherwise (none at all when the middleware is bypassed); a call that
\* threw is not repeated: the request is answered with the one call made.
C25_AtMostOneLookup ==
    /\ ledgerReads \in {0, 1}
    /\ pc # "idle" => (ledgerReads = 1 <=> PassedChecks)
    /\ (Decided /\ tx.status = "rpcError") =>
          /\ ledgerReads = 1
          /\ ~nextCalled
          /\ res = VerificationFailed

\* C25 witness: the lookup of a request threw and the request was answered
\* after that one lookup.
C25_Witness ==
    /\ pc = "done"
    /\ tx.status = "rpcError"
    /\ ledgerReads = 1
    /\ res = VerificationFailed

\* C26: the handler runs only for a request the middleware let through
\* (bypassed, or verifyPayment returned true), and a request that is over
\* has either the handler's response, next having been called, or one
\* error response of the middleware, next not having been called.
C26_HandlerOnlyAfterAuthorized ==
    /\ pc = "computing" => nextCalled
    /\ nextCalled => (Bypass(req) \/ (PassedChecks /\ isValid = "true"))
    /\ pc = "done" =>
          \/ nextCalled /\ res.by = req.route
          \/ /\ ~nextCalled
             /\ res.by = "requirePayment"
             /\ res.status \in {400, 402, 500}

\* C26 witness: the handler is computing for a request whose payment was
\* verified on the ledger.
C26_Witness ==
    /\ pc = "computing"
    /\ ~Bypass(req)
    /\ isValid = "true"
    /\ req.route = "/risk-score/:wallet"

\* C27 (as claimed): a proof object without an amount under amount or
\* value, or whose amount is not a number, causes no lookup and is not let
\* through: its request ends with Invalid Payment Header or Insufficient
\* Payment.
C27_AmountlessProofRejected ==
    (pc # "idle" /\ Unbypassed /\ req.header.kind = "object"
        /\ parsedPayment.amount.t # "number") =>
        /\ ledgerReads = 0
        /\ ~nextCalled
        /\ pc = "done"
        /\ res.error \in {"Invalid Payment Header", "Insufficient Payment"}

----------------------------------------------------------------------------
(* Properties of the proof fields, checked under SpecProof.                *)

\* The member of header object p under the first of keys (from index i
\* on) that p has; undefined when it has none of them.
RECURSIVE FirstPresent(_, _, _)
FirstPresent(p, keys, i) ==
    IF i > Len(keys) THEN Undef
    ELSE IF p[keys[i]] # Undef THEN p[keys[i]]
    ELSE FirstPresent(p, keys, i + 1)

\* C24 (as claimed): every field of a parsed proof is the member under the
\* first alias key the header object has, whatever that member is.
C24_FirstPresentAliasUsed ==
    (pc # "idle" /\ ~parsedPayment.isNull) =>
        LET p == req.header.props
        IN  /\ parsedPayment.amount = FirstPresent(p, <<"amount", "value">>, 1)
            /\ parsedPayment.token = FirstPresent(p, <<"token", "mint">>, 1)
            /\ parsedPayment.sender =
                  FirstPresent(p, <<"sender", "from", "payer">>, 1)
            /\ parsedPayment.recipient =
                  FirstPresent(p, <<"recipient", "to", "payee">>, 1)
            /\ parsedPayment.signature =
                  FirstPresent(p, <<"signature", "txSignature", "tx">>, 1)

\* The request with the token, mint, sender, from, payer and timestamp
\* members of its header taken away.
Erased(r) ==
    [r EXCEPT !.header.props =
        [k \in AliasKeys |->
            IF k \in {"token", "mint", "sender", "from", "payer", "timestamp"}
            THEN Undef ELSE @[k]]]

\* C28: what the middleware and the handler do with a request is what they
\* do with the same request without its token, mint, sender, from, payer
\* and timestamp members, given the same answer of the ledger: the same
\* response without a lookup, the same lookup, the same verdict on its
\* answer and the same handler response.
C28_OutcomeIgnoresAssetAndPayer ==
    pc # "idle" =>
        LET e == Erased(req)
            step == requirePayment(RequiredAmount(e.route), e)
        IN  /\ step.do = "verify" <=> ledgerReads = 1
            /\ step.do = "verify" => call = step.call
            /\ step.do = "respond" =>
                  pc = "done" /\ res = step.res /\ ~nextCalled
            /\ step.do = "next" => nextCalled /\ isValid = "none"
            /\ (step.do = "verify" /\ pc \in {"computing", "done"}) =>
                  /\ nextCalled <=>
                        verifyPayment(tx, step.call.expectedAmount,
                                      step.call.expectedRecipient)
                  /\ ~nextCalled => res = VerificationFailed
            /\ (nextCalled /\ pc = "done") =>
                  res \in {HandlerStart(e).res, HandlerFinish(e)}

\* C28 witness: a proof naming another asset and a payer was authorized by
\* a transfer of the configured asset.
C28_Witness ==
    /\ pc = "computing"
    /\ isValid = "true"
    /\ parsedPayment.token = Str("OtherMint")
    /\ parsedPayment.sender = Str("HolderWallet")
    /\ Erased(req) # req

----------------------------------------------------------------------------
(* Properties of getPrices, checked under SpecPrices.                      *)

\* C29 (as claimed): every entry of the map getPrices returns is under a
\* symbol that has a feed and holds the price that feed quoted, also when
\* symbols without a feed were in the list.
C29_EntryHoldsOwnFeedPrice ==
    pc = "pricesReturned" =>
        \A symbol \in DOMAIN prices :
           /\ getFeedId(symbol) # ""
           /\ prices[symbol].symbol = symbol
           /\ prices[symbol].price =
                 Scaled(FeedQuote(getFeedId(symbol)).mantissa,
                        FeedQuote(getFeedId(symbol)).expo)

====
